---- MODULE Spec2Model ----
(***************************************************************************)
(* PetDance Cloud Functions: the job lifecycle (createJob, startJob and    *)
(* the replicateWebhook completion callback) over the Firestore job and    *)
(* user collections, the storage bucket and the Replicate provider.        *)
(*                                                                         *)
(* Every request handler is a sequence of steps; a step is the code        *)
(* between two awaited calls that touch the shared stores, so handlers of  *)
(* different requests interleave exactly at the awaits.                    *)
(***************************************************************************)
EXTENDS Integers, Sequences, FiniteSets, TLC

(* ------------------------------ bounds --------------------------------- *)
MaxTime == 1        \* the server clock runs over 0..MaxTime
MaxRequests == 4    \* requests received in one behaviour

Users == {"u1", "u2"}
JobOrder == <<"j1", "j2">>      \* the ids db.collection('jobs').doc() hands out, in order
JobIds == {JobOrder[i] : i \in 1..Len(JobOrder)}
ReqOrder == <<"r1", "r2">>      \* concurrently running handler invocations
Reqs == {ReqOrder[i] : i \in 1..Len(ReqOrder)}

(* ------------------------- values and helpers -------------------------- *)
Null == <<>>
Some(v) == <<v>>
Val(o) == o[1]

JSUndef == [t |-> "undefined"]
JSStr(s) == [t |-> "string", s |-> s]
JSObj(url, video, output) == [t |-> "object", url |-> url, video |-> video, output |-> output]
JSArr(a) == [t |-> "array", a |-> a]

Truthy(v) ==
  CASE v.t = "undefined" -> FALSE
    [] v.t = "string" -> v.s # ""
    [] OTHER -> TRUE

STORAGE_UNAVAILABLE_MSG == "Video storage is being configured. Please try again later. (Storage requires billing setup)"
FREE_USER_DAILY_LIMIT == 2
DayLen == 1         \* dayAgo: one day on the server clock
validStyles_WithTango == {"hip-hop", "ballet", "disco", "breakdance", "salsa", "robot", "tango"}
validStyles == {"hip-hop", "ballet", "disco", "breakdance", "salsa", "robot"}

OutputPath(u, j) == "outputs/" \o u \o "/" \o j \o "/dance.mp4"
PredId(n) == "pred-" \o ToString(n)

(* ------------------------------ state ---------------------------------- *)
VARIABLES
  env,          \* process.env and the module-level bucket handle
  now,          \* server clock (FieldValue.serverTimestamp, new Date())
  users,        \* Firestore collection users: userId -> document
  jobs,         \* Firestore collection jobs: jobId -> document
  predictions,  \* predictions created at the provider: index n has id PredId(n), value the job it was made for
  received,     \* number of requests received so far
  saves,        \* number of outputFile.save calls that wrote dance.mp4, per job id
  uploaded,     \* job ids whose input image exists in the bucket at inputImagePath
  billing,      \* RevenueCat: whether a secret key is configured, and the API's answer per user
  verifier,     \* a call of a helper (verifyWebhookSignature, the videoUrl extraction): its arguments and what it returned
  script,       \* a program run outside the functions: scripts/grant-pro.js, or pollJobStatus in the page
  req           \* the running handler invocations: locals and position, or the response sent

vars == <<env, now, users, jobs, predictions, received, saves, uploaded, billing, verifier, script, req>>

Idle == [pc |-> "idle"]
(* the response an invocation has sent: HTTP status and the exit taken *)
Done(kind, resp, outcome) ==
  [pc |-> "done", kind |-> kind, resp |-> resp, outcome |-> outcome]

(* invocation r moves to rec; a response already sent by another invocation has
   left the system *)
Step(r, rec) ==
  [x \in Reqs |-> IF x = r THEN rec ELSE IF req[x].pc = "done" THEN Idle ELSE req[x]]

Free(r) == req[r].pc \in {"idle", "done"}

(* a new request is taken by the first invocation slot that is free *)
Accepts(r) ==
  /\ received < MaxRequests
  /\ \E i \in 1..Len(ReqOrder) :
       /\ ReqOrder[i] = r
       /\ Free(r)
       /\ \A k \in 1..(i - 1) : ~Free(ReqOrder[k])

(* the deployments explored: every setting of the webhook secret and of
   REPLICATE_SKIP_WEBHOOK_VERIFY, then mock mode, then a missing bucket *)
Env(secret, skipVerify, mock, bucket) ==
  [secret |-> secret, skipVerify |-> skipVerify, mock |-> mock, bucket |-> bucket]

(* ------------------------- RevenueCat ---------------------------------- *)
(* the API's answer to GET /subscribers/{id}: the fetch throws, a non-ok status,
   or a subscriber with entitlements (id -> expires_date) and subscriptions *)
Unreachable == [kind |-> "unreachable"]
HttpError == [kind |-> "error"]
Subscriber(entitlements, subscriptions) ==
  [kind |-> "ok", entitlements |-> entitlements, subscriptions |-> subscriptions]
Subscription(expires, periodType) == [expires_date |-> expires, period_type |-> periodType]

(* REVENUECAT_ENTITLEMENT_ID || 'pro', lower-cased; k.toLowerCase() *)
entitlementId == "pro"
ToLowerCase(k) == IF k = "Pro" THEN "pro" ELSE k

(* a record without expires_date does not count *)
NotExpired_DateRequired(expires) == expires # Null /\ Val(expires) > now

(* expires_date == null || new Date(expires_date) > new Date() *)
NotExpired(expires) == expires = Null \/ Val(expires) > now

(* what validateSubscription hands back: threw tells a throw from a return *)
SubscriptionResult(hasAccess, status) ==
  [threw |-> FALSE, hasAccess |-> hasAccess, subscriptionStatus |-> status]

(* the catch block rethrows *)
CaughtResult_Rethrow == [threw |-> TRUE, hasAccess |-> FALSE, subscriptionStatus |-> "none"]

(* catch (error) { return { hasAccess: false, subscriptionStatus: 'none' } } *)
CaughtResult == SubscriptionResult(FALSE, "none")

(* validateSubscription(revenuecatUserId, secretKey) *)
ValidateSubscription(userId) ==
  LET answer == billing.answer[userId]
      result(hasAccess, status) == SubscriptionResult(hasAccess, status)
  IN IF ~billing.key THEN result(TRUE, "active")
     ELSE IF answer.kind = "unreachable" THEN CaughtResult
     ELSE IF answer.kind = "error" THEN result(FALSE, "none")
     ELSE
       LET ents == answer.entitlements
           subs == answer.subscriptions
           matching == {k \in DOMAIN ents : ToLowerCase(k) = entitlementId}
           hasEntitlement == matching # {}
           entitlement ==
             IF entitlementId \in DOMAIN ents THEN ents[entitlementId]
             ELSE ents[CHOOSE k \in matching : TRUE]
           isActiveFromEntitlement == hasEntitlement /\ NotExpired(entitlement)
           isActiveFromSubscriptions == \E sub \in subs : NotExpired(sub.expires_date)
           isActive == isActiveFromEntitlement \/ isActiveFromSubscriptions
           inTrialPeriod == \E sub \in subs : sub.period_type = "trial"
       IN result(isActive, IF isActive THEN (IF inTrialPeriod THEN "trial" ELSE "active")
                           ELSE "none")

(* no secret key configured: validateSubscription answers without calling the API *)
NoBilling == [key |-> FALSE, answer |-> [u \in Users |-> Unreachable]]

Init ==
  /\ env \in {Env(s, k, FALSE, TRUE) : s \in BOOLEAN, k \in BOOLEAN}
              \cup {Env(TRUE, FALSE, TRUE, TRUE), Env(TRUE, FALSE, FALSE, FALSE)}
  /\ uploaded = {}
  /\ billing = NoBilling
  /\ verifier = Idle
  /\ script = Idle
  /\ now = 0
  /\ users = << >>
  /\ jobs = << >>
  /\ predictions = << >>
  /\ received = 0
  /\ saves = [j \in JobIds |-> 0]
  /\ req = [r \in Reqs |-> Idle]

(* jobRef.update(fields): merges the given fields into the document *)
JobUpdate(j, fields) ==
  [jobs EXCEPT ![j] = [k \in (DOMAIN @) \cup (DOMAIN fields) |->
                         IF k \in DOMAIN fields THEN fields[k] ELSE @[k]]]

(* the invocation slots that take the next request *)
Acceptors == {r \in Reqs : Accepts(r)}

(* Authorization header and auth.verifyIdToken *)
NoAuthHeader == [bearer |-> FALSE, uid |-> Null]
BadToken == [bearer |-> TRUE, uid |-> Null]
TokenOf(u) == [bearer |-> TRUE, uid |-> Some(u)]

(* --------------------------- clock ------------------------------------- *)
(* a job still processing after a day is given up *)
Tick_TimesOut ==
  /\ now < MaxTime
  /\ now' = now + 1
  /\ jobs' = [j \in DOMAIN jobs |->
               IF jobs[j].status = "processing" /\ jobs[j].createdAt + DayLen <= now + 1
                 THEN [jobs[j] EXCEPT !.status = "failed"] ELSE jobs[j]]
  /\ req' = [x \in Reqs |-> IF req[x].pc = "done" THEN Idle ELSE req[x]]
  /\ UNCHANGED <<env, uploaded, billing, verifier, script, users, predictions, received, saves>>

Tick ==
  /\ now < MaxTime
  /\ now' = now + 1
  /\ req' = [x \in Reqs |-> IF req[x].pc = "done" THEN Idle ELSE req[x]]
  /\ UNCHANGED <<env, uploaded, billing, verifier, script, users, jobs, predictions, received, saves>>

(* --------------------------- createJob --------------------------------- *)
(* up to the first store read: method, bearer token, danceStyle, userRef.get() *)
CreateJobBegin(r, method, auth, danceStyle) ==
  /\ Accepts(r)
  /\ received' = received + 1
  /\ UNCHANGED <<env, uploaded, billing, verifier, script, now, users, jobs, predictions, saves>>
  /\ req' = Step(r, IF method = "OPTIONS" THEN Done("createJob", 204, "preflight")
       ELSE IF method # "POST" THEN Done("createJob", 405, "method")
       ELSE IF ~auth.bearer THEN Done("createJob", 401, "no_auth_header")
       ELSE IF auth.uid = Null THEN Done("createJob", 500, "verifyIdToken_threw")
       ELSE IF ~Truthy(danceStyle) \/ danceStyle.t # "string"
         THEN Done("createJob", 400, "danceStyle_required")
       ELSE IF danceStyle.s \notin validStyles
         THEN Done("createJob", 400, "invalid_danceStyle")
       ELSE [pc |-> IF Val(auth.uid) \in DOMAIN users THEN "cj_job_set" ELSE "cj_user_set",
             kind |-> "createJob", userId |-> Val(auth.uid), danceStyle |-> danceStyle.s])

(* getOrCreateUser: userRef.set for a user that was absent when read *)
CreateJobUserSet(r) ==
  /\ req[r].pc = "cj_user_set"
  /\ users' = [u \in (DOMAIN users) \cup {req[r].userId} |->
                 IF u = req[r].userId
                   THEN [subscriptionStatus |-> "none", revenuecatUserId |-> u]
                   ELSE users[u]]
  /\ req' = Step(r, [req[r] EXCEPT !.pc = "cj_job_set"])
  /\ UNCHANGED <<env, uploaded, billing, verifier, script, now, jobs, predictions, saves, received>>

NewJob(u, j, style, t) ==
  [userId |-> u,
   inputImagePath |-> "uploads/" \o u \o "/" \o j \o "/original.jpg",
   outputVideoPath |-> Null,
   status |-> "pending",
   danceStyle |-> style,
   replicateJobId |-> Null,
   createdAt |-> t,
   completedAt |-> Null,
   errorMessage |-> Null]

(* db.collection('jobs').doc(): an id no document has *)
NewJobId == JobOrder[Cardinality(DOMAIN jobs) + 1]

(* jobRef = db.collection('jobs').doc(); jobRef.set({...}) *)
CreateJobSet(r) ==
  /\ req[r].pc = "cj_job_set"
  /\ \E storeOK \in BOOLEAN :
       IF storeOK
         THEN /\ Cardinality(DOMAIN jobs) < Len(JobOrder)
              /\ LET j == NewJobId IN
                 /\ jobs' = [x \in (DOMAIN jobs) \cup {j} |->
                               IF x = j THEN NewJob(req[r].userId, j, req[r].danceStyle, now)
                                        ELSE jobs[x]]
                 /\ req' = Step(r, Done("createJob", 200, "created"))
         ELSE /\ jobs' = jobs
              /\ req' = Step(r, Done("createJob", 500, "store_error"))
  /\ UNCHANGED <<env, uploaded, billing, verifier, script, now, users, predictions, saves, received>>

(* --------------------------- startJob ---------------------------------- *)
ImageUrlInputs == {JSUndef, JSStr("uploads/original.jpg"), JSStr("https://img")}

(* the query without the status filter *)
RateLimitQuery_AnyStatus(userId) ==
  {j \in DOMAIN jobs : jobs[j].userId = userId /\ jobs[j].createdAt >= now - DayLen}

(* checkRateLimit's query: jobs of the user, status processing or completed,
   createdAt >= dayAgo *)
RateLimitQuery(userId) ==
  {j \in DOMAIN jobs : /\ jobs[j].userId = userId
                       /\ jobs[j].status \in {"processing", "completed"}
                       /\ jobs[j].createdAt >= now - DayLen}

(* the limit is exceeded only above it *)
OverLimit_Strict(n) == n > FREE_USER_DAILY_LIMIT

(* jobsSnapshot.size >= FREE_USER_DAILY_LIMIT *)
OverLimit(n) == n >= FREE_USER_DAILY_LIMIT

(* the code between checkRateLimit and the storage probe: imageUrl checks and
   the bucket handle *)
AfterRateLimit(l) ==
  IF ~Truthy(l.imageUrl) \/ l.imageUrl.t # "string"
    THEN Done("startJob", 400, "imageUrl_required")
  ELSE IF ~(Len(l.imageUrl.s) >= 4 /\ SubSeq(l.imageUrl.s, 1, 4) = "http")
    THEN Done("startJob", 400, "imageUrl_not_http")
  ELSE IF ~env.bucket
    THEN Done("startJob", 503, "storage_unavailable")
  ELSE [pc |-> "sj_probe", kind |-> "startJob", userId |-> l.userId, jobId |-> l.jobId]

(* the owner check left out *)
IsOwner_Anyone(job, userId) == TRUE

(* job.userId !== userId answers 403 *)
IsOwner(job, userId) == job.userId = userId

(* the pending check left out *)
IsPending_Always(job) == TRUE

(* the pending check on the snapshot startJob has read *)
IsPending(job) == job.status = "pending"

(* startJob's answer when a check on the job fails; the record keeps the caller
   and the job id the request named *)
Refused(resp, outcome, userId, jobId) ==
  [pc |-> "done", kind |-> "startJob", resp |-> resp, outcome |-> outcome,
   userId |-> userId, jobId |-> jobId]

(* up to jobRef.get(): method, bearer token, jobId, then the checks on the snapshot *)
StartJobBegin(r, method, auth, jobId, imageUrl) ==
  /\ Accepts(r)
  /\ received' = received + 1
  /\ UNCHANGED <<env, uploaded, billing, verifier, script, now, users, jobs, predictions, saves>>
  /\ req' = Step(r, IF method = "OPTIONS" THEN Done("startJob", 204, "preflight")
       ELSE IF method # "POST" THEN Done("startJob", 405, "method")
       ELSE IF ~auth.bearer THEN Done("startJob", 401, "no_auth_header")
       ELSE IF auth.uid = Null THEN Done("startJob", 500, "verifyIdToken_threw")
       ELSE IF jobId = Null THEN Done("startJob", 400, "jobId_required")
       ELSE IF Val(jobId) \notin DOMAIN jobs
         THEN Refused(404, "job_not_found", Val(auth.uid), Val(jobId))
       ELSE IF ~IsOwner(jobs[Val(jobId)], Val(auth.uid))
         THEN Refused(403, "unauthorized", Val(auth.uid), Val(jobId))
       ELSE IF ~IsPending(jobs[Val(jobId)])
         THEN Refused(400, "already_" \o jobs[Val(jobId)].status, Val(auth.uid), Val(jobId))
       ELSE [pc |-> "sj_rate_user", kind |-> "startJob", userId |-> Val(auth.uid),
             jobId |-> Val(jobId), imageUrl |-> imageUrl])

(* validateSubscription (its result is not used; a throw would reach startJob's
   catch), then checkRateLimit's read of users/{userId} *)
StartJobRateUser(r) ==
  /\ req[r].pc = "sj_rate_user"
  /\ UNCHANGED <<env, uploaded, billing, verifier, script, now, users, jobs, predictions, saves, received>>
  /\ req' = Step(r, IF ValidateSubscription(req[r].userId).threw
         THEN Done("startJob", 500, "validateSubscription_threw")
         ELSE IF req[r].userId \in DOMAIN users /\ users[req[r].userId].subscriptionStatus = "active"
         THEN AfterRateLimit(req[r])
         ELSE [req[r] EXCEPT !.pc = "sj_rate_jobs"])

(* checkRateLimit's jobs query and the limit *)
StartJobRateJobs(r) ==
  /\ req[r].pc = "sj_rate_jobs"
  /\ UNCHANGED <<env, uploaded, billing, verifier, script, now, users, jobs, predictions, saves, received>>
  /\ req' = Step(r, IF OverLimit(Cardinality(RateLimitQuery(req[r].userId)))
         THEN Done("startJob", 500, "free_tier_limit")
         ELSE AfterRateLimit(req[r]))

(* verifyStorageWritable: the probe file is written and deleted, or the probe fails *)
StartJobProbe(r) ==
  /\ req[r].pc = "sj_probe"
  /\ UNCHANGED <<env, uploaded, billing, verifier, script, now, users, jobs, predictions, saves, received>>
  /\ \E canWrite \in BOOLEAN :
       req' = Step(r, IF ~canWrite THEN Done("startJob", 503, "storage_unavailable")
         ELSE [req[r] EXCEPT !.pc = IF env.mock THEN "sj_mock_save" ELSE "sj_predict"])

(* mock mode: fetch(mockVideoUrl), outputFile.save *)
StartJobMockSave(r) ==
  /\ req[r].pc = "sj_mock_save"
  /\ UNCHANGED <<env, uploaded, billing, verifier, script, now, users, jobs, predictions, received>>
  /\ \E fetchOK \in BOOLEAN, saveOK \in BOOLEAN :
       IF fetchOK /\ saveOK
         THEN /\ saves' = [saves EXCEPT ![req[r].jobId] = @ + 1]
              /\ req' = Step(r, [req[r] EXCEPT !.pc = "sj_mock_update"])
         ELSE /\ saves' = saves
              /\ req' = Step(r, Done("startJob", 500, "mock_failed"))

(* mock mode: jobRef.update to completed *)
StartJobMockUpdate(r) ==
  /\ req[r].pc = "sj_mock_update"
  /\ UNCHANGED <<env, uploaded, billing, verifier, script, now, users, predictions, saves, received>>
  /\ \E storeOK \in BOOLEAN :
       LET j == req[r].jobId IN
       IF storeOK
         THEN /\ jobs' = JobUpdate(j, [status |-> "completed",
                                       outputVideoPath |-> Some(OutputPath(req[r].userId, j)),
                                       replicateJobId |-> Some("mock-" \o j),
                                       completedAt |-> Some(now),
                                       errorMessage |-> Null])
              /\ req' = Step(r, Done("startJob", 200, "mock_completed"))
         ELSE /\ jobs' = jobs
              /\ req' = Step(r, Done("startJob", 500, "mock_failed"))

(* a provider failure is written to the job *)
StartJobCreatePrediction_MarksFailed(r) ==
  /\ req[r].pc = "sj_predict"
  /\ UNCHANGED <<env, uploaded, billing, verifier, script, now, users, predictions, saves, received>>
  /\ jobs' = [jobs EXCEPT ![req[r].jobId].status = "failed"]
  /\ req' = Step(r, Done("startJob", 500, "provider_error"))

(* createPrediction: the provider creates a prediction and returns its id, or the
   call throws (no token, provider error) *)
StartJobCreatePrediction(r) ==
  /\ req[r].pc = "sj_predict"
  /\ UNCHANGED <<env, uploaded, billing, verifier, script, now, users, jobs, saves, received>>
  /\ \E providerOK \in BOOLEAN :
       IF providerOK
         THEN /\ predictions' = Append(predictions, req[r].jobId)
              /\ req' = Step(r, [pc |-> "sj_update", kind |-> "startJob",
                                            userId |-> req[r].userId, jobId |-> req[r].jobId,
                                            prediction |-> PredId(Len(predictions) + 1)])
         ELSE /\ predictions' = predictions
              /\ req' = Step(r, Done("startJob", 500, "provider_error"))

(* the update also stamps the job again *)
ProcessingFields_Restamps(predictionId) ==
  [status |-> "processing", replicateJobId |-> Some(predictionId), createdAt |-> now]

(* the fields startJob writes once the prediction exists *)
ProcessingFields(predictionId) == [status |-> "processing", replicateJobId |-> Some(predictionId)]

(* jobRef.update({status: 'processing', replicateJobId: prediction.id}) *)
StartJobUpdate(r) ==
  /\ req[r].pc = "sj_update"
  /\ UNCHANGED <<env, uploaded, billing, verifier, script, now, users, predictions, saves, received>>
  /\ \E storeOK \in BOOLEAN :
       IF storeOK
         THEN /\ jobs' = JobUpdate(req[r].jobId, ProcessingFields(req[r].prediction))
              /\ req' = Step(r, Done("startJob", 200, "processing"))
         ELSE /\ jobs' = jobs
              /\ req' = Step(r, Done("startJob", 500, "store_error"))

(* ------------------------ replicateWebhook ----------------------------- *)
VideoUrl == "https://replicate.delivery/out.mp4"

(* the result locator read from payload.output; called only for a truthy output *)
ExtractVideoUrl(output) ==
  LET Or(a, b) == IF Truthy(a) THEN a ELSE b
      First(v) == IF v.t = "array" /\ Len(v.a) > 0 THEN v.a[1] ELSE JSUndef
      picked ==
        IF output.t = "string" THEN output
        ELSE IF output.t = "object"
          THEN Or(Or(Or(output.url, output.video), output.output), JSUndef)
        ELSE IF output.t = "array" THEN First(output)
        ELSE JSUndef
  IN IF output.t # "string" /\ picked.t = "array" THEN First(picked) ELSE picked

(* the query without its where clause *)
FindJobs_AnyJob(replicateJobId) == DOMAIN jobs

(* db.collection('jobs').where('replicateJobId', '==', id).limit(1) *)
FindJobs(replicateJobId) ==
  {j \in DOMAIN jobs : jobs[j].replicateJobId = Some(replicateJobId)}

(* whether the handler calls verifyWebhookSignature for a request with these headers *)
RunsVerification(hdr) ==
  env.secret /\ hdr.id /\ hdr.ts /\ hdr.sig /\ ~env.skipVerify

(* what signature verification said of the request: isValid is the value
   verifyWebhookSignature returns for its body and headers *)
Verification(hdr, isValid) ==
  IF RunsVerification(hdr)
    THEN (IF isValid THEN "valid" ELSE "invalid")
    ELSE "skipped"

(* an invalid signature is logged and the handler goes on *)
Rejects_LogOnly(verify) == FALSE

(* if (!isValid) { res.status(401); return } *)
Rejects(verify) == verify = "invalid"

BadJson == [json |-> FALSE]
Payload(id, status, output, error) ==
  [json |-> TRUE, id |-> id, status |-> status, output |-> output, error |-> error]

(* the updates the handler applies for a terminal payload *)
FailedFields(msg) == [status |-> "failed", errorMessage |-> Some(msg), completedAt |-> Some(now)]
(* the path is recorded and the status is left as it is *)
CompletedFields_PathOnly(path) == [outputVideoPath |-> Some(path)]

CompletedFields(path) ==
  [status |-> "completed", outputVideoPath |-> Some(path), completedAt |-> Some(now),
   errorMessage |-> Null]

(* the response of the webhook; w holds what the invocation knows of the request:
   verify, the payload id, the job found and the status it had when found *)
WebhookDone(resp, outcome, w) ==
  [pc |-> "done", kind |-> "webhook", resp |-> resp, outcome |-> outcome,
   verify |-> w.verify, id |-> w.id, job |-> w.job, seen |-> w.seen]
WebhookAt(pc, w, upd, msg) ==
  [pc |-> pc, kind |-> "webhook", verify |-> w.verify, id |-> w.id, job |-> w.job,
   seen |-> w.seen, upd |-> upd, msg |-> msg]
Known(verify, id, job, seen) == [verify |-> verify, id |-> id, job |-> job, seen |-> seen]

(* an invocation of the webhook, running or answered *)
IsWebhookRecord(rec) == rec.pc # "idle" /\ rec.kind = "webhook"

(* the reason as the payload gives it, with no fallback *)
FailureReason_Raw(error) == IF error.t = "string" THEN error.s ELSE ""

(* error || 'Replicate job failed' *)
FailureReason(error) == IF Truthy(error) THEN error.s ELSE "Replicate job failed"

(* a status the handler does not know is recorded as a failure *)
WebhookBranch_FailsOtherStatus(w, body) ==
  IF body.status = "succeeded" /\ Truthy(body.output)
    THEN IF ~Truthy(ExtractVideoUrl(body.output))
           THEN WebhookDone(500, "no_video_url", w)
         ELSE IF ~env.bucket
           THEN WebhookAt("wh_update", w, "failed", STORAGE_UNAVAILABLE_MSG)
         ELSE WebhookAt("wh_save", w, "none", "")
  ELSE IF body.status = "canceled"
    THEN WebhookAt("wh_update", w, "failed", "Job was canceled")
  ELSE WebhookAt("wh_update", w, "failed", FailureReason(body.error))

(* the branch taken for the job found, up to the next await *)
WebhookBranch(w, body) ==
  IF body.status = "succeeded" /\ Truthy(body.output)
    THEN IF ~Truthy(ExtractVideoUrl(body.output))
           THEN WebhookDone(500, "no_video_url", w)
         ELSE IF ~env.bucket
           THEN WebhookAt("wh_update", w, "failed", STORAGE_UNAVAILABLE_MSG)
         ELSE WebhookAt("wh_save", w, "none", "")
  ELSE IF body.status = "failed"
    THEN WebhookAt("wh_update", w, "failed", FailureReason(body.error))
  ELSE IF body.status = "canceled"
    THEN WebhookAt("wh_update", w, "failed", "Job was canceled")
  ELSE WebhookDone(200, "ignored_status", w)

(* from the request to the jobs query: signature gate, JSON.parse, payload.id, lookup *)
WebhookPost(r, hdr, isValid, body) ==
  /\ Accepts(r)
  /\ received' = received + 1
  /\ UNCHANGED <<env, uploaded, billing, verifier, script, now, users, jobs, predictions, saves>>
  /\ LET verify == Verification(hdr, isValid) IN
     IF Rejects(verify)
       THEN req' = Step(r, WebhookDone(401, "invalid_signature", Known(verify, Null, Null, Null)))
     ELSE IF ~body.json
       THEN req' = Step(r, WebhookDone(400, "invalid_json", Known(verify, Null, Null, Null)))
     ELSE IF ~Truthy(body.id)
       THEN req' = Step(r, WebhookDone(400, "missing_prediction_id", Known(verify, Null, Null, Null)))
     ELSE \E storeOK \in BOOLEAN :
            IF ~storeOK
              THEN req' = Step(r, WebhookDone(500, "store_error", Known(verify, Some(body.id.s), Null, Null)))
            ELSE IF FindJobs(body.id.s) = {}
              THEN req' = Step(r, WebhookDone(200, "no_job", Known(verify, Some(body.id.s), Null, Null)))
            ELSE \E j \in FindJobs(body.id.s) :
                   req' = Step(r, WebhookBranch(Known(verify, Some(body.id.s), Some(j),
                                                      Some(jobs[j].status)), body))

(* a failing save is answered like a failing download *)
WebhookSave_AnswersError(r) ==
  /\ req[r].pc = "wh_save"
  /\ UNCHANGED <<env, uploaded, billing, verifier, script, now, users, jobs, predictions, received>>
  /\ \E fetchOK \in BOOLEAN, saveOK \in BOOLEAN :
       IF ~fetchOK \/ ~saveOK
         THEN /\ saves' = saves
              /\ req' = Step(r, WebhookDone(500, IF fetchOK THEN "save_failed" ELSE "fetch_failed",
                                            req[r]))
       ELSE /\ saves' = [saves EXCEPT ![Val(req[r].job)] = @ + 1]
            /\ req' = Step(r, WebhookAt("wh_update", req[r], "completed", ""))

(* fetch(videoUrl), then outputFile.save(buffer) *)
WebhookSave(r) ==
  /\ req[r].pc = "wh_save"
  /\ UNCHANGED <<env, uploaded, billing, verifier, script, now, users, jobs, predictions, received>>
  /\ \E fetchOK \in BOOLEAN, saveOK \in BOOLEAN :
       IF ~fetchOK
         THEN /\ saves' = saves
              /\ req' = Step(r, WebhookDone(500, "fetch_failed", req[r]))
       ELSE IF ~saveOK
         THEN /\ saves' = saves
              /\ req' = Step(r, WebhookAt("wh_update", req[r], "failed", STORAGE_UNAVAILABLE_MSG))
       ELSE /\ saves' = [saves EXCEPT ![Val(req[r].job)] = @ + 1]
            /\ req' = Step(r, WebhookAt("wh_update", req[r], "completed", ""))

(* the jobRef.update that records the callback's outcome *)
WebhookUpdate(r) ==
  /\ req[r].pc = "wh_update"
  /\ UNCHANGED <<env, uploaded, billing, verifier, script, now, users, predictions, saves, received>>
  /\ \E storeOK \in BOOLEAN :
       LET j == Val(req[r].job) IN
       IF storeOK
         THEN /\ jobs' = JobUpdate(j, IF req[r].upd = "completed"
                                        THEN CompletedFields(OutputPath(jobs[j].userId, j))
                                        ELSE FailedFields(req[r].msg))
              /\ req' = Step(r, WebhookDone(200, req[r].upd, req[r]))
         ELSE /\ jobs' = jobs
              /\ req' = Step(r, WebhookDone(500, "store_error", req[r]))

(* ------------------------- requests received --------------------------- *)
CreateJobRequests ==
  {[method |-> m, auth |-> TokenOf("u1"), danceStyle |-> JSStr("disco")] : m \in {"GET", "OPTIONS"}}
  \cup {[method |-> "POST", auth |-> a, danceStyle |-> JSStr("disco")] : a \in {NoAuthHeader, BadToken}}
  \cup {[method |-> "POST", auth |-> TokenOf("u1"), danceStyle |-> d] : d \in {JSUndef, JSStr("disco"), JSStr("tango")}}

StartJobRequests ==
  {[method |-> m, auth |-> TokenOf("u1"), jobId |-> Some("j1"), imageUrl |-> JSStr("https://img")] :
      m \in {"GET", "OPTIONS"}}
  \cup {[method |-> "POST", auth |-> a, jobId |-> Some("j1"), imageUrl |-> JSStr("https://img")] :
      a \in {NoAuthHeader, BadToken}}
  \cup {[method |-> "POST", auth |-> TokenOf("u1"), jobId |-> Null, imageUrl |-> JSStr("https://img")]}
  \cup {[method |-> "POST", auth |-> TokenOf(u), jobId |-> Some(j), imageUrl |-> i] :
      u \in Users, j \in JobIds, i \in ImageUrlInputs}

AllHeaders == [id |-> TRUE, ts |-> TRUE, sig |-> TRUE]
PayloadInputs(id) ==
  {Payload(id, "succeeded", out, JSUndef) :
      out \in {JSUndef, JSStr(VideoUrl), JSObj(JSUndef, JSUndef, JSUndef)}}
  \cup {Payload(id, "failed", JSUndef, e) : e \in {JSUndef, JSStr("boom")}}
  \cup {Payload(id, st, JSUndef, JSUndef) : st \in {"canceled", "processing"}}
TerminalPayloads(id) ==
  {Payload(id, "succeeded", JSStr(VideoUrl), JSUndef), Payload(id, "failed", JSUndef, JSUndef)}

(* callbacks that name no prediction the provider has created *)
StrayWebhookRequests ==
  {[hdr |-> AllHeaders, isValid |-> FALSE, body |-> b] :
          b \in {BadJson, Payload(JSUndef, "succeeded", JSStr(VideoUrl), JSUndef),
                 Payload(JSStr("unknown-999"), "succeeded", JSStr(VideoUrl), JSUndef)}}
  \cup {[hdr |-> AllHeaders, isValid |-> TRUE, body |-> b] :
          b \in {BadJson} \cup PayloadInputs(JSUndef) \cup PayloadInputs(JSStr("unknown-999"))}
  \cup {[hdr |-> [AllHeaders EXCEPT !.sig = FALSE], isValid |-> FALSE, body |-> b] :
          b \in PayloadInputs(JSStr("unknown-999"))}

(* callbacks for a prediction: signed, wrongly signed, or with a header left out;
   the body's id is filled in with the id of a created prediction *)
PredictionWebhookRequests ==
  {[hdr |-> AllHeaders, isValid |-> v, body |-> b] :
          v \in BOOLEAN, b \in PayloadInputs(JSStr("?"))}
  \cup {[hdr |-> AllHeaders, isValid |-> TRUE,
          body |-> Payload(JSStr("?"), "failed", JSUndef, JSStr(""))]}
  \cup {[hdr |-> [AllHeaders EXCEPT !.sig = FALSE], isValid |-> FALSE, body |-> b] :
          b \in PayloadInputs(JSStr("?"))}
  \cup {[hdr |-> h, isValid |-> FALSE, body |-> b] :
          h \in {[AllHeaders EXCEPT !.id = FALSE], [AllHeaders EXCEPT !.ts = FALSE]},
          b \in TerminalPayloads(JSStr("?"))}

Next ==
  \/ Tick
  \/ \E r \in Acceptors, q \in CreateJobRequests : CreateJobBegin(r, q.method, q.auth, q.danceStyle)
  \/ \E r \in Reqs : CreateJobUserSet(r)
  \/ \E r \in Reqs : CreateJobSet(r)
  \/ \E r \in Acceptors, q \in StartJobRequests : StartJobBegin(r, q.method, q.auth, q.jobId, q.imageUrl)
  \/ \E r \in Reqs : StartJobRateUser(r)
  \/ \E r \in Reqs : StartJobRateJobs(r)
  \/ \E r \in Reqs : StartJobProbe(r)
  \/ \E r \in Reqs : StartJobMockSave(r)
  \/ \E r \in Reqs : StartJobMockUpdate(r)
  \/ \E r \in Reqs : StartJobCreatePrediction(r)
  \/ \E r \in Reqs : StartJobUpdate(r)
  \/ \E r \in Acceptors, q \in StrayWebhookRequests : WebhookPost(r, q.hdr, q.isValid, q.body)
  \/ \E r \in Acceptors, q \in PredictionWebhookRequests, n \in 1..Len(predictions) :
       WebhookPost(r, q.hdr, q.isValid, [q.body EXCEPT !.id = JSStr(PredId(n))])
  \/ \E r \in Reqs : WebhookSave(r)
  \/ \E r \in Reqs : WebhookUpdate(r)

Spec == Init /\ [][Next]_vars

(* ------------------- startJob on a job history ------------------------- *)
(* A second specification for the checks startJob makes. It starts from a
   jobs collection that earlier createJob, startJob and webhook requests have
   left: two jobs of any owner and status, and a pending job j3 of user u1
   whose image the client has uploaded or not; user u1's document carries the
   subscriptionStatus that getOrCreateUser or scripts/grant-pro.js wrote. *)
HistoryClocks == 0..(DayLen + 1)   \* the history ends within, at the edge of, or past one window
PendingJob == "j3"
HistoryIds == JobIds
Statuses == {"pending", "processing", "completed", "failed"}

(* a job document as createJob, startJob and the webhook leave it in each status *)
HistoryJob(u, j, status, t, prediction) ==
  LET fresh == NewJob(u, j, "disco", t) IN
  CASE status = "pending" -> fresh
    [] status = "processing" ->
         [fresh EXCEPT !.status = status, !.replicateJobId = Some(prediction)]
    [] status = "completed" ->
         [fresh EXCEPT !.status = status, !.replicateJobId = Some(prediction),
                       !.outputVideoPath = Some(OutputPath(u, j)), !.completedAt = Some(t)]
    [] status = "failed" ->
         [fresh EXCEPT !.status = status, !.replicateJobId = Some(prediction),
                       !.errorMessage = Some("Replicate job failed"), !.completedAt = Some(t)]

(* the histories explored: j1 is u1's and was created at 0, j2 is anyone's and
   was created at 0 or just now *)
Histories ==
  {h \in [clock : HistoryClocks, s1 : Statuses, s2 : Statuses, u2 : Users, t2 : HistoryClocks] :
      h.t2 \in {0, h.clock}}

HistoryPredictions(h) ==
  (IF h.s1 # "pending" THEN <<"j1">> ELSE << >>) \o (IF h.s2 # "pending" THEN <<"j2">> ELSE << >>)

HistoryJobs(h) ==
  [j \in HistoryIds \cup {PendingJob} |->
     IF j = "j1" THEN HistoryJob("u1", j, h.s1, 0, PredId(1))
     ELSE IF j = "j2" THEN HistoryJob(h.u2, j, h.s2, h.t2, PredId(Len(HistoryPredictions(h))))
     ELSE NewJob("u1", j, "disco", h.clock)]

UserDoc(u, status) == [subscriptionStatus |-> status, revenuecatUserId |-> u]

(* answers of the billing API for u1: an outage, an error status, a subscriber
   with a lifetime 'pro' entitlement, a subscriber with nothing *)
FreeSubscriber == Subscriber(<< >>, {})
BillingWith(answer) ==
  [key |-> TRUE, answer |-> [u \in Users |-> IF u = "u1" THEN answer ELSE FreeSubscriber]]

InitStart ==
  /\ env = Env(TRUE, FALSE, FALSE, TRUE)
  /\ \E h \in Histories :
       /\ now = h.clock
       /\ jobs = HistoryJobs(h)
       /\ predictions = HistoryPredictions(h)
  /\ \E status \in {"none", "active"} :
       users = [u \in Users |-> UserDoc(u, IF u = "u1" THEN status ELSE "none")]
  /\ uploaded \in {{}, {PendingJob}}
  /\ billing \in {NoBilling}
       \cup {BillingWith(a) :
               a \in {Unreachable, HttpError, Subscriber([k \in {"pro"} |-> Null], {}),
                      FreeSubscriber}}
  /\ verifier = Idle
  /\ script = Idle
  /\ received = Cardinality(DOMAIN jobs)      \* the createJob requests that made the jobs
  /\ saves = [j \in DOMAIN jobs |-> 0]
  /\ req = [r \in Reqs |-> Idle]

(* the client puts the image at the job's inputImagePath *)
Upload(j) ==
  /\ j \in DOMAIN jobs
  /\ j \notin uploaded
  /\ uploaded' = uploaded \cup {j}
  /\ UNCHANGED <<env, billing, verifier, script, now, users, jobs, predictions, received, saves, req>>

(* startJob requests: the owner on the pending job, with and without a usable
   imageUrl; the owner on an older job; another user; a job id no job has *)
HistoryStartRequests ==
  {[method |-> "POST", auth |-> TokenOf("u1"), jobId |-> Some(PendingJob), imageUrl |-> i] :
      i \in ImageUrlInputs}
  \cup {[method |-> "POST", auth |-> TokenOf(u), jobId |-> Some(j), imageUrl |-> JSStr("https://img")] :
      u \in Users, j \in {"j1", "j2", "j9"}}

StartNext ==
  \/ Tick
  \/ Upload(PendingJob)
  \/ \E r \in Acceptors, q \in HistoryStartRequests :
       StartJobBegin(r, q.method, q.auth, q.jobId, q.imageUrl)
  \/ \E r \in Reqs : StartJobRateUser(r)
  \/ \E r \in Reqs : StartJobRateJobs(r)
  \/ \E r \in Reqs : StartJobProbe(r)
  \/ \E r \in Reqs : StartJobCreatePrediction(r)
  \/ \E r \in Reqs : StartJobUpdate(r)

SpecStart == InitStart /\ [][StartNext]_vars

(* ------------- verifyWebhookSignature and signWebhook ------------------ *)
(* A fourth specification for the signature check as a function of its
   arguments and of Date.now(). Body, webhook id, timestamp and secret are
   strings. A digest is the pair of the key and the content it was computed
   from, so two digests are equal exactly when key and content are; the header
   that carries its base64 text is a sequence of atoms, a run of characters or
   the base64 text of a digest. *)
TOLERANCE == 300          \* seconds
DigestLength == 32        \* bytes of a SHA-256 digest
Chars(s) == [t |-> "chars", s |-> s]
Base64Text(digest) == [t |-> "base64", of |-> digest]
Last(seq) == seq[Len(seq)]
CharAt(s, i) == SubSeq(s, i, i)
Abs(n) == IF n < 0 THEN -n ELSE n

(* character codes of the letters, the digits and the signs a secret is made of *)
UpperCase == "ABCDEFGHIJKLMNOPQRSTUVWXYZ"
LowerCase == "abcdefghijklmnopqrstuvwxyz"
Digits == "0123456789"
IndexIn(s, c) == CHOOSE i \in 1..Len(s) : CharAt(s, i) = c
Occurs(s, c) == \E i \in 1..Len(s) : CharAt(s, i) = c
(* the bytes createHmac takes for a string key *)
Utf8(s) ==
  LET CharCode(c) ==
        CASE Occurs(UpperCase, c) -> 64 + IndexIn(UpperCase, c)
          [] Occurs(LowerCase, c) -> 96 + IndexIn(LowerCase, c)
          [] Occurs(Digits, c) -> 47 + IndexIn(Digits, c)
          [] c = "+" -> 43
          [] c = "/" -> 47
          [] c = "=" -> 61
          [] c = "_" -> 95
  IN [i \in 1..Len(s) |-> CharCode(CharAt(s, i))]

Sextet(c) == IndexIn(UpperCase \o LowerCase \o Digits \o "+/", c) - 1
RECURSIVE Pow2(_)
Pow2(n) == IF n = 0 THEN 1 ELSE 2 * Pow2(n - 1)

(* Buffer.from(s, 'base64') for s over the base64 alphabet: 6 bits a character,
   whole bytes only *)
Base64Decode(s) ==
  LET pair(q) == 64 * Sextet(CharAt(s, q)) + Sextet(CharAt(s, q + 1))
      byte(k) == (pair(((8 * k) \div 6) + 1) \div Pow2(4 - ((8 * k) % 6))) % 256
  IN [k \in 1..((6 * Len(s)) \div 8) |-> byte(k - 1)]

(* HMAC pads a key with zero bytes up to the block size: trailing zero bytes of
   a key do not change the digest *)
RECURSIVE ZeroPadded(_)
ZeroPadded(key) ==
  IF Len(key) > 0 /\ Last(key) = 0 THEN ZeroPadded(SubSeq(key, 1, Len(key) - 1)) ELSE key

(* crypto.createHmac('sha256', key).update(content) *)
HmacSha256(key, content) == [key |-> ZeroPadded(key), content |-> content]

(* secret.replace('whsec_', ''): the first occurrence is removed *)
WithoutPrefix(secret) ==
  LET pat == "whsec_"
      hits == {i \in 1..(Len(secret) - Len(pat) + 1) : SubSeq(secret, i, i + Len(pat) - 1) = pat}
  IN IF hits = {} THEN secret
     ELSE LET i == CHOOSE h \in hits : \A g \in hits : h <= g
          IN SubSeq(secret, 1, i - 1) \o SubSeq(secret, i + Len(pat), Len(secret))

(* `${webhookId}.${timestamp}.${body}` *)
SignedContent(webhookId, timestamp, body) == webhookId \o "." \o timestamp \o "." \o body

(* scripts/test-webhook: the key is the base64-decoded secret *)
signWebhook(body, webhookId, timestamp, secret) ==
  Base64Text(HmacSha256(Base64Decode(WithoutPrefix(secret)),
                        SignedContent(webhookId, timestamp, body)))

(* verifyWebhookSignature's expectedSignature: the key is the secret's text *)
ExpectedSignature(body, webhookId, timestamp, secret) ==
  Base64Text(HmacSha256(Utf8(WithoutPrefix(secret)),
                        SignedContent(webhookId, timestamp, body)))

(* text.split(sep) *)
RECURSIVE Split(_, _)
Split(text, sep) ==
  IF \A i \in 1..Len(text) : text[i] # Chars(sep) THEN <<text>>
  ELSE LET i == CHOOSE h \in 1..Len(text) :
                  text[h] = Chars(sep) /\ \A g \in 1..(h - 1) : text[g] # Chars(sep)
       IN <<SubSeq(text, 1, i - 1)>> \o Split(SubSeq(text, i + 1, Len(text)), sep)

(* signature.split(' ').map(s => last of s.split(',')) *)
Signatures(signature) ==
  LET entries == Split(signature, " ")
  IN [i \in 1..Len(entries) |-> Last(Split(entries[i], ","))]

(* Buffer.from(sig, 'base64'): the digest a base64 text carries, or the bytes
   that plain characters decode to *)
RECURSIVE JoinChars(_)
JoinChars(text) == IF text = << >> THEN "" ELSE Head(text).s \o JoinChars(Tail(text))
FromBase64(text) ==
  IF Len(text) = 1 /\ text[1].t = "base64"
    THEN [len |-> DigestLength, bytes |-> text[1].of]
    ELSE LET bytes == Base64Decode(JoinChars(text)) IN [len |-> Len(bytes), bytes |-> bytes]

(* crypto.timingSafeEqual inside try/catch: it throws on buffers of different
   length, and the catch answers false *)
TimingSafeEqual(a, b) == a.len = b.len /\ a.bytes = b.bytes

(* parseInt(s, 10): leading blanks, a sign, then the longest run of digits;
   Null is NaN *)
IsDigit(c) == Occurs(Digits, c)
RECURSIVE DigitRun(_, _, _)
DigitRun(s, i, acc) ==
  IF i <= Len(s) /\ IsDigit(CharAt(s, i)) THEN DigitRun(s, i + 1, 10 * acc + IndexIn(Digits, CharAt(s, i)) - 1)
  ELSE acc
RECURSIVE ParseInt(_)
ParseInt(s) ==
  IF s = "" THEN Null
  ELSE IF CharAt(s, 1) = " " THEN ParseInt(SubSeq(s, 2, Len(s)))
  ELSE LET signed == CharAt(s, 1) \in {"-", "+"}
           first == IF signed THEN 2 ELSE 1
       IN IF first > Len(s) \/ ~IsDigit(CharAt(s, first)) THEN Null
          ELSE Some((IF CharAt(s, 1) = "-" THEN -1 ELSE 1) * DigitRun(s, first, 0))

(* future timestamps are not checked *)
IsRecent_PastOnly(dateNow, parsed) ==
  parsed # Null /\ dateNow - 1000 * Val(parsed) < 1000 * TOLERANCE

(* Math.abs(Date.now() / 1000 - parseInt(timestamp, 10)) < 300, in milliseconds;
   a comparison with NaN is false *)
IsRecent(dateNow, parsed) ==
  parsed # Null /\ Abs(dateNow - 1000 * Val(parsed)) < 1000 * TOLERANCE

(* the freshness check left out *)
Accepted_SignatureOnly(isValid, isRecent) == isValid

(* return isValid && isRecent *)
Accepted(isValid, isRecent) == isValid /\ isRecent

(* verifyWebhookSignature(body, webhookId, timestamp, signature, secret), called
   when Date.now() is dateNow *)
verifyWebhookSignature(body, webhookId, timestamp, signature, secret, dateNow) ==
  LET expectedSignature == ExpectedSignature(body, webhookId, timestamp, secret)
      signatures == Signatures(signature)
      isValid == \E i \in 1..Len(signatures) :
                   TimingSafeEqual(FromBase64(signatures[i]), FromBase64(<<expectedSignature>>))
  IN Accepted(isValid, IsRecent(dateNow, ParseInt(timestamp)))

(* the calls explored: secrets of the form whsec_<base64> for the signer and for
   the function, a body, timestamps around Date.now() = 1000 s *)
Secrets == {"whsec_", "whsec_QUJD", "whsec_c2VjcmV0"}
Bodies == {"{\"id\":\"p1\"}", "{\"id\":\"p2\"}"}
SignedBody == "{\"id\":\"p1\"}"
DateNows == {1000000, 1000999}
Timestamps == {"1000", "701", "700", "699", "400", "1299", "1300", "1301", "abc", "1000abc"}

Composed(signerSecret, secret, timestamp, dateNow) ==
  [pc |-> "composed", signerSecret |-> signerSecret, secret |-> secret, webhookId |-> "msg_1",
   timestamp |-> timestamp, body |-> SignedBody, dateNow |-> dateNow]

InitVerify ==
  /\ env = Env(TRUE, FALSE, FALSE, TRUE)
  /\ uploaded = {}
  /\ billing = NoBilling
  /\ verifier \in {Composed(k, s, t, d) : k \in Secrets, s \in Secrets, t \in Timestamps, d \in DateNows}
  /\ script = Idle
  /\ now = 0
  /\ users = << >>
  /\ jobs = << >>
  /\ predictions = << >>
  /\ received = 0
  /\ saves = [j \in JobIds |-> 0]
  /\ req = [r \in Reqs |-> Idle]

(* the header 'v1,<sig>', alone or after an entry that carries another signature *)
Header(sig, rotated) ==
  (IF rotated THEN <<Chars("v1"), Chars(","), Chars("AAAA"), Chars(" ")>> ELSE << >>)
    \o <<Chars("v1"), Chars(","), sig>>

Signed(by, signature) ==
  [pc |-> "signed", by |-> by, altered |-> FALSE, signature |-> signature,
   signerSecret |-> verifier.signerSecret, secret |-> verifier.secret,
   webhookId |-> verifier.webhookId, timestamp |-> verifier.timestamp,
   body |-> verifier.body, dateNow |-> verifier.dateNow]

(* a sender that signs the way the function computes expectedSignature *)
SenderSigns ==
  /\ verifier.pc = "composed"
  /\ \E rotated \in BOOLEAN :
       verifier' = Signed("sender", Header(ExpectedSignature(verifier.body, verifier.webhookId,
                                                             verifier.timestamp, verifier.signerSecret),
                                           rotated))
  /\ UNCHANGED <<env, uploaded, billing, script, now, users, jobs, predictions, received, saves, req>>

(* the test script's main: signWebhook, then the header `v1,${signature}` *)
ScriptSigns ==
  /\ verifier.pc = "composed"
  /\ verifier' = Signed("signWebhook", Header(signWebhook(verifier.body, verifier.webhookId,
                                                          verifier.timestamp, verifier.signerSecret),
                                              FALSE))
  /\ UNCHANGED <<env, uploaded, billing, script, now, users, jobs, predictions, received, saves, req>>

(* the body that arrives is not the body that was signed *)
AlterBody ==
  /\ verifier.pc = "signed"
  /\ ~verifier.altered
  /\ \E body \in Bodies \ {verifier.body} :
       verifier' = [verifier EXCEPT !.body = body, !.altered = TRUE]
  /\ UNCHANGED <<env, uploaded, billing, script, now, users, jobs, predictions, received, saves, req>>

(* the call, as the webhook handler and the script's self-check make it *)
Verify ==
  /\ verifier.pc = "signed"
  /\ verifier' = [pc |-> "verified", by |-> verifier.by, altered |-> verifier.altered,
                  signerSecret |-> verifier.signerSecret, secret |-> verifier.secret,
                  timestamp |-> verifier.timestamp, dateNow |-> verifier.dateNow,
                  result |-> verifyWebhookSignature(verifier.body, verifier.webhookId,
                                                    verifier.timestamp, verifier.signature,
                                                    verifier.secret, verifier.dateNow)]
  /\ UNCHANGED <<env, uploaded, billing, script, now, users, jobs, predictions, received, saves, req>>

VerifyNext == SenderSigns \/ ScriptSigns \/ AlterBody \/ Verify

SpecVerify == InitVerify /\ [][VerifyNext]_vars

(* ------------------- getJobStatus, getDownloadUrl ---------------------- *)
(* the response of an endpoint that names a job: the caller, the job id and the
   job fields in the body, Null when the body carries none *)
Answer(kind, resp, outcome, userId, jobId, data) ==
  [pc |-> "done", kind |-> kind, resp |-> resp, outcome |-> outcome,
   userId |-> userId, jobId |-> jobId, data |-> data]

(* exports.getJobStatus: method, bearer token, jobId, the job read, the owner check;
   in the body outputVideoPath is present only for a completed job that has one
   (Null: the key is absent) *)
GetJobStatus(r, method, auth, jobId) ==
  /\ Accepts(r)
  /\ received' = received + 1
  /\ UNCHANGED <<env, uploaded, billing, verifier, script, now, users, jobs, predictions, saves>>
  /\ \E storeOK \in BOOLEAN :
       req' = Step(r, IF method = "OPTIONS" THEN Done("getJobStatus", 204, "preflight")
         ELSE IF method # "GET" THEN Done("getJobStatus", 405, "method")
         ELSE IF ~auth.bearer THEN Done("getJobStatus", 401, "no_auth_header")
         ELSE IF auth.uid = Null THEN Done("getJobStatus", 500, "verifyIdToken_threw")
         ELSE IF jobId = Null THEN Done("getJobStatus", 400, "jobId_required")
         ELSE IF ~storeOK THEN Done("getJobStatus", 500, "store_error")
         ELSE IF Val(jobId) \notin DOMAIN jobs
           THEN Answer("getJobStatus", 404, "job_not_found", Val(auth.uid), Val(jobId), Null)
         ELSE IF ~IsOwner(jobs[Val(jobId)], Val(auth.uid))
           THEN Answer("getJobStatus", 403, "unauthorized", Val(auth.uid), Val(jobId), Null)
         ELSE LET job == jobs[Val(jobId)] IN
              Answer("getJobStatus", 200, "status", Val(auth.uid), Val(jobId),
                     Some([jobId |-> Val(jobId), status |-> job.status,
                           danceStyle |-> job.danceStyle,
                           createdAt |-> job.createdAt, completedAt |-> job.completedAt,
                           errorMessage |-> job.errorMessage,
                           outputVideoPath |->
                             IF job.status = "completed" /\ job.outputVideoPath # Null
                               THEN job.outputVideoPath ELSE Null])))

(* exports.getDownloadUrl: the same checks, then the video must be ready *)
GetDownloadUrl(r, method, auth, jobId) ==
  /\ Accepts(r)
  /\ received' = received + 1
  /\ UNCHANGED <<env, uploaded, billing, verifier, script, now, users, jobs, predictions, saves>>
  /\ \E storeOK \in BOOLEAN :
       req' = Step(r, IF method = "OPTIONS" THEN Done("getDownloadUrl", 204, "preflight")
         ELSE IF method # "POST" THEN Done("getDownloadUrl", 405, "method")
         ELSE IF ~auth.bearer THEN Done("getDownloadUrl", 401, "no_auth_header")
         ELSE IF auth.uid = Null THEN Done("getDownloadUrl", 500, "verifyIdToken_threw")
         ELSE IF jobId = Null THEN Done("getDownloadUrl", 400, "jobId_required")
         ELSE IF ~storeOK THEN Done("getDownloadUrl", 500, "store_error")
         ELSE IF Val(jobId) \notin DOMAIN jobs
           THEN Answer("getDownloadUrl", 404, "job_not_found", Val(auth.uid), Val(jobId), Null)
         ELSE IF ~IsOwner(jobs[Val(jobId)], Val(auth.uid))
           THEN Answer("getDownloadUrl", 403, "unauthorized", Val(auth.uid), Val(jobId), Null)
         ELSE IF jobs[Val(jobId)].status # "completed" \/ jobs[Val(jobId)].outputVideoPath = Null
           THEN Answer("getDownloadUrl", 400, "not_ready", Val(auth.uid), Val(jobId), Null)
         ELSE Answer("getDownloadUrl", 200, "download", Val(auth.uid), Val(jobId),
                     Some([outputVideoPath |-> jobs[Val(jobId)].outputVideoPath,
                           expiresIn |-> 3600])))

(* ------------------- every endpoint on one job ------------------------- *)
(* A fifth specification: user u1 has created job j1, which has reached any of
   the four statuses; then createJob, startJob, the completion callback,
   getJobStatus (which the client polls) and getDownloadUrl are called by the
   owner, by user u2 and without a valid credential, while the clock advances.
   The deployment verifies callbacks and has a bucket or has none. *)
InitOps ==
  /\ env \in {Env(TRUE, FALSE, FALSE, bucket) : bucket \in BOOLEAN}
  /\ uploaded = {}
  /\ billing = NoBilling
  /\ verifier = Idle
  /\ script = Idle
  /\ now = 0
  /\ users = [u \in {"u1"} |-> UserDoc(u, "none")]
  /\ \E status \in Statuses :
       /\ jobs = [j \in {"j1"} |-> HistoryJob("u1", j, status, 0, PredId(1))]
       /\ predictions = IF status = "pending" THEN << >> ELSE <<"j1">>
  /\ received = 1                               \* the createJob request that made j1
  /\ saves = [j \in JobIds |-> 0]
  /\ req = [r \in Reqs |-> Idle]

Credentials == {NoAuthHeader, BadToken}

OpsCreateRequests ==
  {[method |-> "POST", auth |-> a, danceStyle |-> JSStr("disco")] : a \in Credentials}
  \cup {[method |-> "POST", auth |-> TokenOf("u2"), danceStyle |-> d] :
          d \in {JSUndef, JSStr(""), JSArr(<< >>), JSStr("tango"), JSStr("disco")}}

OpsStartRequests ==
  {[method |-> "POST", auth |-> a, jobId |-> Some("j1"), imageUrl |-> JSStr("https://img")] :
      a \in Credentials}
  \cup {[method |-> "POST", auth |-> TokenOf(u), jobId |-> Some(j), imageUrl |-> JSStr("https://img")] :
      u \in Users, j \in JobIds}

OpsJobReads ==
  {[auth |-> a, jobId |-> Some("j1")] : a \in Credentials}
  \cup {[auth |-> TokenOf(u), jobId |-> Some(j)] : u \in Users, j \in JobIds}

OpsNext ==
  \/ Tick
  \/ \E r \in Acceptors, q \in OpsCreateRequests : CreateJobBegin(r, q.method, q.auth, q.danceStyle)
  \/ \E r \in Reqs : CreateJobUserSet(r)
  \/ \E r \in Reqs : CreateJobSet(r)
  \/ \E r \in Acceptors, q \in OpsStartRequests : StartJobBegin(r, q.method, q.auth, q.jobId, q.imageUrl)
  \/ \E r \in Reqs : StartJobRateUser(r)
  \/ \E r \in Reqs : StartJobRateJobs(r)
  \/ \E r \in Reqs : StartJobProbe(r)
  \/ \E r \in Reqs : StartJobCreatePrediction(r)
  \/ \E r \in Reqs : StartJobUpdate(r)
  \/ \E r \in Acceptors, n \in 1..Len(predictions) :
       \E body \in TerminalPayloads(JSStr(PredId(n))) : WebhookPost(r, AllHeaders, TRUE, body)
  \/ \E r \in Reqs : WebhookSave(r)
  \/ \E r \in Reqs : WebhookUpdate(r)
  \/ \E r \in Acceptors, q \in OpsJobReads : GetJobStatus(r, "GET", q.auth, q.jobId)
  \/ \E r \in Acceptors, q \in OpsJobReads : GetDownloadUrl(r, "POST", q.auth, q.jobId)

SpecOps == InitOps /\ [][OpsNext]_vars

(* ---------------- getOrCreateUser and scripts/grant-pro.js ------------- *)
(* A sixth specification: createJob requests of user u1, two of which may run
   at once, and one run of the grant-pro script for u1; the users collection
   starts empty or with u1's document. *)

(* snap = await userRef.get() *)
GrantRead(u) ==
  /\ script = Idle
  /\ script' = [pc |-> "gp_write", userId |-> u, exists |-> u \in DOMAIN users]
  /\ UNCHANGED <<env, uploaded, billing, verifier, now, users, jobs, predictions, received, saves, req>>

(* userRef.set({... subscriptionStatus: 'active'}) when the snapshot did not
   exist, else userRef.update({subscriptionStatus: 'active'}) *)
GrantWrite ==
  /\ script.pc = "gp_write"
  /\ LET u == script.userId IN
     users' = IF ~script.exists
                THEN [x \in (DOMAIN users) \cup {u} |->
                        IF x = u THEN UserDoc(u, "active") ELSE users[x]]
              ELSE [users EXCEPT ![u].subscriptionStatus = "active"]
  /\ script' = [pc |-> "exited", userId |-> script.userId]
  /\ UNCHANGED <<env, uploaded, billing, verifier, now, jobs, predictions, received, saves, req>>

InitUsers ==
  /\ env = Env(TRUE, FALSE, FALSE, TRUE)
  /\ uploaded = {}
  /\ billing = NoBilling
  /\ verifier = Idle
  /\ script = Idle
  /\ now = 0
  /\ users \in {<< >>} \cup {[u \in {"u1"} |-> UserDoc(u, status)] : status \in {"none", "active"}}
  /\ jobs = << >>
  /\ predictions = << >>
  /\ received = 0
  /\ saves = [j \in JobIds |-> 0]
  /\ req = [r \in Reqs |-> Idle]

UsersNext ==
  \/ Tick
  \/ \E r \in Acceptors : CreateJobBegin(r, "POST", TokenOf("u1"), JSStr("disco"))
  \/ \E r \in Reqs : CreateJobUserSet(r)
  \/ \E r \in Reqs : CreateJobSet(r)
  \/ GrantRead("u1")
  \/ GrantWrite

SpecUsers == InitUsers /\ [][UsersNext]_vars

(* ------------------- end to end, with fairness ------------------------- *)
(* A seventh specification, for progress: one deployment with verification on,
   mock mode off and a bucket; user u1 creates jobs, starts them and the
   provider calls back. The stores, the download of the video and the bucket
   work while a callback is handled (startJob may still fail), and a callback
   invocation that has been started runs on to its response. *)
WebhookOutage(rec) ==
  /\ IsWebhookRecord(rec)
  /\ \/ rec.pc = "done" /\ rec.outcome \in {"store_error", "fetch_failed"}
     \/ rec.pc = "wh_update" /\ rec.upd = "failed" /\ rec.msg = STORAGE_UNAVAILABLE_MSG
Working == \A r \in Reqs : ~WebhookOutage(req[r])

InitLive ==
  /\ env = Env(TRUE, FALSE, FALSE, TRUE)
  /\ uploaded = {}
  /\ billing = NoBilling
  /\ verifier = Idle
  /\ script = Idle
  /\ now = 0
  /\ users = << >>
  /\ jobs = << >>
  /\ predictions = << >>
  /\ received = 0
  /\ saves = [j \in JobIds |-> 0]
  /\ req = [r \in Reqs |-> Idle]

LiveSave == \E r \in Reqs : WebhookSave(r) /\ Working'
LiveUpdate == \E r \in Reqs : WebhookUpdate(r) /\ Working'

LiveNext ==
  \/ Tick
  \/ \E r \in Acceptors : CreateJobBegin(r, "POST", TokenOf("u1"), JSStr("disco"))
  \/ \E r \in Reqs : CreateJobUserSet(r)
  \/ \E r \in Reqs : CreateJobSet(r)
  \/ \E r \in Acceptors, j \in JobIds :
       StartJobBegin(r, "POST", TokenOf("u1"), Some(j), JSStr("https://img"))
  \/ \E r \in Reqs : StartJobRateUser(r)
  \/ \E r \in Reqs : StartJobRateJobs(r)
  \/ \E r \in Reqs : StartJobProbe(r)
  \/ \E r \in Reqs : StartJobCreatePrediction(r)
  \/ \E r \in Reqs : StartJobUpdate(r)
  \/ \E r \in Acceptors, isValid \in BOOLEAN, n \in 1..Len(predictions) :
       \E body \in TerminalPayloads(JSStr(PredId(n))) :
         WebhookPost(r, AllHeaders, isValid, body) /\ Working'
  \/ LiveSave
  \/ LiveUpdate

SpecLive == InitLive /\ [][LiveNext]_vars /\ WF_vars(LiveSave) /\ WF_vars(LiveUpdate)

(* ----------------- the result locator of a payload --------------------- *)
(* An eighth specification, for the videoUrl extraction as a function of
   payload.output: the handler reaches it for a payload with status succeeded
   and skips it when the output is falsy. The outputs are strings, arrays and
   objects with the keys url, video and output, nested one level. *)
Outputs ==
  LET leaves == {JSUndef, JSStr(""), JSStr(VideoUrl)}
      values == leaves \cup {JSArr(<< >>), JSArr(<<JSStr(VideoUrl)>>),
                             JSObj(JSStr(VideoUrl), JSUndef, JSUndef)}
  IN values
     \cup {JSArr(<<a, b>>) : a \in values, b \in leaves}
     \cup {JSObj(u, v, o) : u \in values, v \in values, o \in values}

InitExtract ==
  /\ env = Env(TRUE, FALSE, FALSE, TRUE)
  /\ uploaded = {}
  /\ billing = NoBilling
  /\ verifier \in {[pc |-> "payload", output |-> o] : o \in Outputs}
  /\ script = Idle
  /\ now = 0
  /\ users = << >>
  /\ jobs = << >>
  /\ predictions = << >>
  /\ received = 0
  /\ saves = [j \in JobIds |-> 0]
  /\ req = [r \in Reqs |-> Idle]

(* status === 'succeeded' && output is false: no branch is taken *)
SkipExtraction ==
  /\ verifier.pc = "payload"
  /\ ~Truthy(verifier.output)
  /\ verifier' = [pc |-> "skipped", output |-> verifier.output]
  /\ UNCHANGED <<env, uploaded, billing, script, now, users, jobs, predictions, received, saves, req>>

(* the extraction, then if (!videoUrl) throw *)
Extraction ==
  /\ verifier.pc = "payload"
  /\ Truthy(verifier.output)
  /\ LET videoUrl == ExtractVideoUrl(verifier.output) IN
     verifier' = [pc |-> IF Truthy(videoUrl) THEN "extracted" ELSE "threw",
                  output |-> verifier.output, videoUrl |-> videoUrl]
  /\ UNCHANGED <<env, uploaded, billing, script, now, users, jobs, predictions, received, saves, req>>

ExtractNext == SkipExtraction \/ Extraction

SpecExtract == InitExtract /\ [][ExtractNext]_vars

(* ------------------- the quota under concurrency ----------------------- *)
(* A ninth specification: free or subscribed user u1 owns three jobs created
   at time 0, j1 in any status and j2 and the pending job still pending, and
   sends startJob requests for them, two of which may run at once. The
   requests counted are the ones received from here on. *)
InitQuota ==
  /\ env = Env(TRUE, FALSE, FALSE, TRUE)
  /\ uploaded = {}
  /\ billing = NoBilling
  /\ verifier = Idle
  /\ script = Idle
  /\ now = 0
  /\ \E status \in {"none", "active"} : users = [u \in {"u1"} |-> UserDoc(u, status)]
  /\ \E s1 \in Statuses :
       /\ jobs = [j \in HistoryIds \cup {PendingJob} |->
                    IF j = "j1" THEN HistoryJob("u1", j, s1, 0, PredId(1))
                    ELSE NewJob("u1", j, "disco", 0)]
       /\ predictions = IF s1 = "pending" THEN << >> ELSE <<"j1">>
  /\ received = 0
  /\ saves = [j \in DOMAIN jobs |-> 0]
  /\ req = [r \in Reqs |-> Idle]

QuotaNext ==
  \/ Tick
  \/ \E r \in Acceptors, j \in HistoryIds \cup {PendingJob} :
       StartJobBegin(r, "POST", TokenOf("u1"), Some(j), JSStr("https://img"))
  \/ \E r \in Reqs : StartJobRateUser(r)
  \/ \E r \in Reqs : StartJobRateJobs(r)
  \/ \E r \in Reqs : StartJobProbe(r)
  \/ \E r \in Reqs : StartJobCreatePrediction(r)
  \/ \E r \in Reqs : StartJobUpdate(r)

SpecQuota == InitQuota /\ [][QuotaNext]_vars

(* ------------------- callbacks of every status ------------------------- *)
(* A tenth specification: job j1 of user u1 in any status, as in the fifth;
   the provider sends callbacks for its prediction with every status it
   reports (starting and processing included) and with outputs that are
   absent, empty or usable, correctly signed or not, while the owner's
   startJob requests and the clock go on. *)
CallbackPayloads(id) ==
  {Payload(id, st, out, JSUndef) :
      st \in {"starting", "processing", "succeeded"},
      out \in {JSUndef, JSStr(""), JSStr(VideoUrl), JSArr(<< >>)}}
  \cup {Payload(id, st, JSUndef, JSStr("boom")) : st \in {"failed", "canceled"}}

CallbackNext ==
  \/ Tick
  \/ \E r \in Acceptors :
       StartJobBegin(r, "POST", TokenOf("u1"), Some("j1"), JSStr("https://img"))
  \/ \E r \in Reqs : StartJobRateUser(r)
  \/ \E r \in Reqs : StartJobRateJobs(r)
  \/ \E r \in Reqs : StartJobProbe(r)
  \/ \E r \in Reqs : StartJobCreatePrediction(r)
  \/ \E r \in Reqs : StartJobUpdate(r)
  \/ \E r \in Acceptors, isValid \in BOOLEAN, n \in 1..Len(predictions) :
       \E body \in CallbackPayloads(JSStr(PredId(n))) : WebhookPost(r, AllHeaders, isValid, body)
  \/ \E r \in Reqs : WebhookSave(r)
  \/ \E r \in Reqs : WebhookUpdate(r)

SpecCallback == InitOps /\ [][CallbackNext]_vars

(* --------------------------- pollJobStatus ----------------------------- *)
(* An eleventh specification, for the page's polling loop (js/app.js): the
   closure poll with its counter attempts, the getJobStatus request it awaits
   and the timer that runs it again. PetDanceAPI.getJobStatus returns the
   job's status or throws (a response that is not ok, a network error). *)
maxAttempts == 120

(* pollJobStatus(jobId): attempts = 0, then poll() *)
InitPoll ==
  /\ env = Env(TRUE, FALSE, FALSE, TRUE)
  /\ uploaded = {}
  /\ billing = NoBilling
  /\ verifier = Idle
  /\ script = [pc |-> "poll", attempts |-> 0, requests |-> 0, results |-> 0, errors |-> 0]
  /\ now = 0
  /\ users = << >>
  /\ jobs = << >>
  /\ predictions = << >>
  /\ received = 0
  /\ saves = [j \in JobIds |-> 0]
  /\ req = [r \in Reqs |-> Idle]

(* if (attempts++ > maxAttempts) { showError(...); return }, else the request
   is sent *)
Poll ==
  /\ script.pc = "poll"
  /\ script' = IF script.attempts > maxAttempts
                 THEN [script EXCEPT !.pc = "stopped", !.attempts = @ + 1, !.errors = @ + 1]
                 ELSE [script EXCEPT !.pc = "awaiting", !.attempts = @ + 1, !.requests = @ + 1]
  /\ UNCHANGED <<env, uploaded, billing, verifier, now, users, jobs, predictions, received, saves, req>>

(* the awaited getJobStatus settles: showResult, showError or setTimeout(poll, 3000) *)
PollAnswer(answer) ==
  /\ script.pc = "awaiting"
  /\ script' = CASE answer = "completed" -> [script EXCEPT !.pc = "stopped", !.results = @ + 1]
                 [] answer \in {"failed", "threw"} ->
                      [script EXCEPT !.pc = "stopped", !.errors = @ + 1]
                 [] OTHER -> [script EXCEPT !.pc = "timer"]
  /\ UNCHANGED <<env, uploaded, billing, verifier, now, users, jobs, predictions, received, saves, req>>

(* the timer fires and runs poll again *)
PollTimer ==
  /\ script.pc = "timer"
  /\ script' = [script EXCEPT !.pc = "poll"]
  /\ UNCHANGED <<env, uploaded, billing, verifier, now, users, jobs, predictions, received, saves, req>>

PollNext ==
  \/ Poll
  \/ \E answer \in {"pending", "processing", "completed", "failed", "threw"} : PollAnswer(answer)
  \/ PollTimer

SpecPoll == InitPoll /\ [][PollNext]_vars

(* ============================= properties ============================== *)
Terminal == {"completed", "failed"}
StartPcs == {"sj_rate_user", "sj_rate_jobs", "sj_probe", "sj_predict", "sj_update",
             "sj_mock_save", "sj_mock_update"}
StartInFlight(r, j) == req[r].pc \in StartPcs /\ req[r].jobId = j
PredictionsFor(j) == {n \in 1..Len(predictions) : predictions[n] = j}
IsWebhook(rec) == rec.pc # "idle" /\ rec.kind = "webhook"
Moved(r) == req'[r] # req[r]
CallbackFields(job) == <<job.status, job.outputVideoPath, job.completedAt, job.errorMessage>>
NoJobHasId(id) == \A j \in DOMAIN jobs : jobs[j].replicateJobId # Some(id)

(* C1: with mock mode off, a job's status only moves pending -> processing ->
   completed or failed, and a completed or failed job never changes status
   again. *)
AllowedStatusStep(a, b) ==
  \/ a = b
  \/ <<a, b>> \in {<<"pending", "processing">>, <<"processing", "completed">>,
                   <<"processing", "failed">>}
C1_StatusOrder ==
  [][~env.mock
       => \A j \in DOMAIN jobs : AllowedStatusStep(jobs[j].status, jobs'[j].status)]_vars

(* C2: while two startJob invocations are running on the same job, the provider
   has been asked for at most one prediction for that job. *)
C2_ConcurrentStartOnce ==
  \A j \in JobIds : \A r1 \in Reqs : \A r2 \in Reqs :
    (r1 # r2 /\ StartInFlight(r1, j) /\ StartInFlight(r2, j))
      => Cardinality(PredictionsFor(j)) <= 1

(* C3: a verified callback that found its job already completed or failed leaves the
   job's status, outputVideoPath, completedAt and errorMessage as they were. *)
C3_TerminalNoOp ==
  [][\A r \in Reqs :
       (req[r].pc = "wh_update" /\ Moved(r) /\ req[r].verify = "valid"
          /\ Val(req[r].seen) \in Terminal)
         => CallbackFields(jobs'[Val(req[r].job)]) = CallbackFields(jobs[Val(req[r].job)])]_vars

(* C4: a verified succeeded callback that found its job already completed writes no
   video to storage and leaves outputVideoPath as it was. *)
C4_NoSecondSave ==
  [][\A r \in Reqs :
       (req[r].pc \in {"wh_save", "wh_update"} /\ Moved(r) /\ req[r].verify = "valid"
          /\ req[r].seen = Some("completed"))
         => /\ saves' = saves
            /\ jobs'[Val(req[r].job)].outputVideoPath = jobs[Val(req[r].job)].outputVideoPath]_vars

(* C5: a callback for which verifyWebhookSignature returned false is answered
   401 in the step that received it, before the payload is parsed or a job is
   looked up, and no job and no stored video changes. *)
C5_InvalidSignatureRejected ==
  [][\A r \in Reqs :
       (IsWebhook(req'[r]) /\ req'[r].verify = "invalid")
         => /\ Free(r)
            /\ req'[r].pc = "done"
            /\ req'[r].resp = 401
            /\ req'[r].id = Null
            /\ req'[r].job = Null
            /\ jobs' = jobs
            /\ saves' = saves]_vars

C5_Witness ==
  \E r \in Reqs :
    /\ IsWebhook(req[r])
    /\ req[r].verify = "invalid"
    /\ req[r].resp = 401
    /\ \E j \in DOMAIN jobs : jobs[j].status = "processing"

(* C6: a callback changes a job record only if verifyWebhookSignature ran on
   it and returned true. *)
C6_OnlyVerifiedCallbacksWrite ==
  [][\A r \in Reqs :
       (req[r].pc = "wh_update" /\ Moved(r) /\ jobs' # jobs) => req[r].verify = "valid"]_vars

(* C7: a callback whose prediction id is the replicateJobId of no job, and whose
   lookup returned, is answered 200 with no job picked, and the jobs collection
   is left as it was. *)
LookupReturned(rec) ==
  /\ IsWebhook(rec)
  /\ rec.id # Null
  /\ ~(rec.pc = "done" /\ rec.outcome = "store_error" /\ rec.job = Null)
C7_UnknownIdAcknowledged ==
  [][\A r \in Reqs :
       (Free(r) /\ Moved(r) /\ LookupReturned(req'[r]) /\ NoJobHasId(Val(req'[r].id)))
         => /\ req'[r].pc = "done"
            /\ req'[r].resp = 200
            /\ req'[r].job = Null
            /\ jobs' = jobs]_vars

C7_Witness ==
  \E r \in Reqs :
    /\ IsWebhook(req[r])
    /\ req[r].pc = "done"
    /\ req[r].id = Some("unknown-999")
    /\ req[r].outcome = "no_job"
    /\ req[r].resp = 200
    /\ \E j \in DOMAIN jobs : jobs[j].status = "processing"

(* C8: a callback that passed signature verification and carried a well-formed
   payload is answered 200, whatever happened while it was processed. *)
C8_AlwaysAcknowledged ==
  \A r \in Reqs :
    (IsWebhook(req[r]) /\ req[r].pc = "done" /\ req[r].verify = "valid" /\ req[r].id # Null)
      => req[r].resp = 200

(* C9: when a verified succeeded callback with no usable result locator has
   been answered, the job it found processing is failed with a reason. *)
C9_NoUrlMarksFailed ==
  \A r \in Reqs :
    (IsWebhook(req[r]) /\ req[r].pc = "done" /\ req[r].outcome = "no_video_url"
       /\ req[r].verify = "valid" /\ req[r].seen = Some("processing"))
      => /\ jobs[Val(req[r].job)].status = "failed"
         /\ jobs[Val(req[r].job)].errorMessage # Null

(* C10: with mock mode off, replicateJobId is null while the job is pending,
   changes only in the update that moves the job from pending to processing,
   and once set keeps its value. *)
C10_ReplicateJobIdWrittenOnce ==
  [][~env.mock
       => /\ \A j \in DOMAIN jobs' :
               jobs'[j].status = "pending" => jobs'[j].replicateJobId = Null
          /\ \A j \in DOMAIN jobs :
               /\ jobs[j].replicateJobId # Null
                    => jobs'[j].replicateJobId = jobs[j].replicateJobId
               /\ jobs'[j].replicateJobId # jobs[j].replicateJobId
                    => (jobs[j].status = "pending" /\ jobs'[j].status = "processing")]_vars

(* C11: a job has an outputVideoPath exactly when its status is completed. *)
C11_OutputPathIffCompleted ==
  \A j \in DOMAIN jobs :
    (jobs[j].outputVideoPath # Null) <=> (jobs[j].status = "completed")

(* C12: every failed job carries a non-empty errorMessage, and it is one of the
   provider's reason, 'Replicate job failed', 'Job was canceled' and the
   storage-unavailable message. *)
FailureMessages ==
  {"boom", "Replicate job failed", "Job was canceled", STORAGE_UNAVAILABLE_MSG}
C12_FailedHasMessage ==
  \A j \in DOMAIN jobs :
    jobs[j].status = "failed"
      => /\ jobs[j].errorMessage # Null
         /\ Val(jobs[j].errorMessage) # ""
         /\ Val(jobs[j].errorMessage) \in FailureMessages

C12_Witness ==
  \E j \in DOMAIN jobs :
    /\ jobs[j].status = "failed"
    /\ jobs[j].errorMessage = Some("Replicate job failed")

(* ------------------ validateSubscription's policy ---------------------- *)
(* A third specification: startJob as in SpecStart, with user u1's answer from
   the billing API drawn from every subscriber made of these entitlement keys,
   expiry dates and subscription records. *)
Expiries == {Null, Some(DayLen)}
Subscribers ==
  LET EntitlementKeys == {"pro", "Pro", "gold"}
      EntitlementMaps == UNION {[K -> Expiries] : K \in SUBSET EntitlementKeys}
      SubscriptionSets == SUBSET {Subscription(e, p) : e \in Expiries, p \in {"normal", "trial"}}
  IN {Subscriber(e, subs) : e \in EntitlementMaps, subs \in SubscriptionSets}

InitBilling ==
  /\ env = Env(TRUE, FALSE, FALSE, TRUE)
  /\ now \in HistoryClocks
  /\ jobs = HistoryJobs([clock |-> now, s1 |-> "completed", s2 |-> "failed", u2 |-> "u1", t2 |-> 0])
  /\ predictions = <<"j1", "j2">>
  /\ users = [u \in Users |-> UserDoc(u, "none")]
  /\ uploaded = {}
  /\ billing \in {BillingWith(a) : a \in Subscribers}
  /\ verifier = Idle
  /\ script = Idle
  /\ received = Cardinality(DOMAIN jobs)
  /\ saves = [j \in DOMAIN jobs |-> 0]
  /\ req = [r \in Reqs |-> Idle]

SpecBilling == InitBilling /\ [][StartNext]_vars

(* ---------------- properties of startJob's checks ---------------------- *)
(* the jobs that count toward user u's quota, read off the jobs collection *)
QuotaCount(u) ==
  Cardinality({j \in DOMAIN jobs : /\ jobs[j].userId = u
                                   /\ jobs[j].status \in {"processing", "completed"}
                                   /\ now - jobs[j].createdAt <= DayLen})
Denied(rec) == rec.pc = "done" /\ rec.outcome = "free_tier_limit"
Outage(u) == billing.key /\ billing.answer[u].kind \in {"unreachable", "error"}

(* C13: a startJob invocation on a job whose input image is not in storage
   creates no prediction and does not move the job to processing. *)
C13_MissingImageNoInference ==
  [][\A r \in Reqs :
       (req[r].pc \in {"sj_predict", "sj_update"} /\ Moved(r) /\ req[r].jobId \notin uploaded)
         => /\ predictions' = predictions
            /\ jobs'[req[r].jobId].status # "processing"]_vars

(* C14: a createPrediction call that fails is answered 500 and leaves every job
   record as it was; startJob admits a job exactly while it is pending, and the
   update after a prediction moves the job to processing with that prediction's id. *)
C14_ProviderFailureLeavesJob ==
  [][\A r \in Reqs :
       /\ (req[r].pc = "sj_predict" /\ Moved(r) /\ predictions' = predictions)
            => /\ req'[r] = Done("startJob", 500, "provider_error")
               /\ jobs' = jobs
       /\ (Free(r) /\ req'[r].pc = "sj_rate_user")
            => /\ jobs[req'[r].jobId].status = "pending"
               /\ jobs[req'[r].jobId].replicateJobId = Null
       /\ (req[r].pc = "sj_update" /\ Moved(r) /\ jobs' # jobs)
            => /\ jobs'[req[r].jobId].status = "processing"
               /\ jobs'[req[r].jobId].replicateJobId = Some(req[r].prediction)]_vars

C14_Witness ==
  \E r \in Reqs :
    /\ req[r] = Done("startJob", 500, "provider_error")
    /\ \A j \in HistoryIds : jobs[j].status # "pending"
    /\ jobs[PendingJob].status = "pending"
    /\ jobs[PendingJob].replicateJobId = Null
    /\ PredictionsFor(PendingJob) = {}

(* C15: startJob answers 404 when no job has the id, else 403 when the job is
   another user's, else 400 naming the status when the job is not pending, and
   goes on only otherwise; the step changes no job and creates no prediction. *)
Names(rec) == rec.pc # "idle" /\ rec.kind = "startJob" /\ "jobId" \in DOMAIN rec
C15_ChecksInOrder ==
  [][\A r \in Reqs :
       (Free(r) /\ Moved(r) /\ Names(req'[r]))
         => LET u == req'[r].userId
                j == req'[r].jobId
            IN /\ jobs' = jobs
               /\ predictions' = predictions
               /\ IF j \notin DOMAIN jobs
                    THEN req'[r].pc = "done" /\ req'[r].resp = 404
                  ELSE IF jobs[j].userId # u
                    THEN req'[r].pc = "done" /\ req'[r].resp = 403
                  ELSE IF jobs[j].status # "pending"
                    THEN /\ req'[r].pc = "done"
                         /\ req'[r].resp = 400
                         /\ req'[r].outcome = "already_" \o jobs[j].status
                  ELSE req'[r].pc = "sj_rate_user"]_vars

C15_Witness ==
  \E r \in Reqs :
    /\ Names(req[r])
    /\ req[r].pc = "done"
    /\ req[r].resp = 400
    /\ req[r].outcome = "already_processing"
    /\ jobs[req[r].jobId].status = "processing"
    /\ Cardinality(PredictionsFor(req[r].jobId)) = 1

(* C16: at checkRateLimit, a user whose document says none and who has 2 or more
   jobs processing or completed inside the window is answered the free-tier
   refusal, with no job changed and no prediction created; a user whose
   document says active never reaches the count and is never refused. *)
C16_FreeTierLimit ==
  [][\A r \in Reqs :
       /\ (req[r].pc = "sj_rate_jobs" /\ Moved(r) /\ QuotaCount(req[r].userId) >= 2)
            => /\ Denied(req'[r])
               /\ req'[r].resp = 500
               /\ jobs' = jobs
               /\ predictions' = predictions
       /\ (req[r].pc = "sj_rate_user" /\ Moved(r)
             /\ users[req[r].userId].subscriptionStatus = "active")
            => /\ req'[r].pc # "sj_rate_jobs"
               /\ ~Denied(req'[r])]_vars

C16_Witness ==
  \E r \in Reqs :
    /\ req[r] = Done("startJob", 500, "free_tier_limit")
    /\ users["u1"].subscriptionStatus = "none"
    /\ QuotaCount("u1") = 2
    /\ jobs[PendingJob].status = "pending"

(* C17: with a billing key configured, a user for whom validateSubscription
   reports access is not refused by the free-tier limit. *)
C17_SubscriberNeverLimited ==
  [][\A r \in Reqs :
       (req[r].pc = "sj_rate_jobs" /\ Moved(r) /\ billing.key
          /\ ValidateSubscription(req[r].userId).hasAccess)
         => ~Denied(req'[r])]_vars

(* C18: checkRateLimit refuses exactly when the user's jobs that are processing
   or completed and were created inside the window number at least the limit. *)
C18_QuotaCountsStartedJobs ==
  [][\A r \in Reqs :
       (req[r].pc = "sj_rate_jobs" /\ Moved(r))
         => (Denied(req'[r]) <=> QuotaCount(req[r].userId) >= FREE_USER_DAILY_LIMIT)]_vars

C18_Witness ==
  \E r \in Reqs :
    /\ req[r].pc = "sj_probe"
    /\ req[r].userId = "u1"
    /\ users["u1"].subscriptionStatus = "none"
    /\ QuotaCount("u1") < FREE_USER_DAILY_LIMIT
    /\ jobs["j1"].status = "failed"
    /\ now - jobs["j1"].createdAt <= DayLen
    /\ jobs["j2"].userId = "u2"
    /\ jobs["j2"].status = "processing"
    /\ now - jobs["j2"].createdAt <= DayLen

(* C19: while the billing API is unreachable or answers an error,
   validateSubscription returns hasAccess false without throwing, startJob does
   not fail on it, and a user inside the quota with a usable imageUrl goes on
   to the storage probe and the provider call. *)
C19_BillingOutageTolerated ==
  [][\A r \in Reqs :
       (req[r].pc \in {"sj_rate_user", "sj_rate_jobs"} /\ Moved(r) /\ Outage(req[r].userId))
         => /\ ~ValidateSubscription(req[r].userId).threw
            /\ ~ValidateSubscription(req[r].userId).hasAccess
            /\ req[r].pc = "sj_rate_user"
                 => req'[r].pc \in {"sj_rate_jobs", "sj_probe"}
                      \/ (req'[r].pc = "done" /\ req'[r].resp \in {400, 503})
            /\ (req[r].pc = "sj_rate_jobs"
                  /\ QuotaCount(req[r].userId) < FREE_USER_DAILY_LIMIT
                  /\ req[r].imageUrl = JSStr("https://img"))
                 => req'[r].pc = "sj_probe"]_vars

C19_Witness ==
  \E r \in Reqs :
    /\ req[r].pc = "sj_update"
    /\ Outage(req[r].userId)
    /\ users[req[r].userId].subscriptionStatus = "none"

(* a record grants access: it has no expiry date, or one in the future *)
Current(expires) == expires = Null \/ (expires # Null /\ now < Val(expires))
Answered(u) == billing.key /\ billing.answer[u].kind = "ok"
AnySubscriptionCurrent(u) ==
  \E sub \in billing.answer[u].subscriptions : Current(sub.expires_date)

(* C20 as stated: with a key configured and a successful answer, hasAccess is
   true exactly when some entitlement record or some subscription record has
   no expiry date or an expiry date in the future. *)
C20_AnyRecordGrantsAccess ==
  \A u \in Users :
    Answered(u)
      => (ValidateSubscription(u).hasAccess
            <=> \/ \E k \in DOMAIN billing.answer[u].entitlements :
                     Current(billing.answer[u].entitlements[k])
                \/ AnySubscriptionCurrent(u))

(* C20 amended: hasAccess is true exactly when the entitlement record under the
   configured id 'pro' (the key 'pro', else a key equal to it ignoring case)
   or some subscription record has no expiry date or one in the future. *)
ConfiguredEntitlementCurrent(u) ==
  LET ents == billing.answer[u].entitlements IN
  IF "pro" \in DOMAIN ents THEN Current(ents["pro"])
  ELSE "Pro" \in DOMAIN ents /\ Current(ents["Pro"])
C20_ConfiguredEntitlementOrSubscription ==
  \A u \in Users :
    Answered(u)
      => (ValidateSubscription(u).hasAccess
            <=> (ConfiguredEntitlementCurrent(u) \/ AnySubscriptionCurrent(u)))

C20_Witness ==
  \E r \in Reqs :
    /\ req[r].pc = "sj_rate_jobs"
    /\ Answered(req[r].userId)
    /\ DOMAIN billing.answer[req[r].userId].entitlements = {"Pro", "gold"}
    /\ ConfiguredEntitlementCurrent(req[r].userId)
    /\ ~AnySubscriptionCurrent(req[r].userId)
    /\ billing.answer[req[r].userId].subscriptions # {}
    /\ ValidateSubscription(req[r].userId).hasAccess

(* ---------------- properties of the signature check -------------------- *)
(* the seconds a timestamp text starts with; a text outside the table starts
   with no integer *)
LeadingSeconds ==
  ("1000" :> 1000) @@ ("701" :> 701) @@ ("700" :> 700) @@ ("699" :> 699) @@ ("400" :> 400)
    @@ ("1299" :> 1299) @@ ("1300" :> 1300) @@ ("1301" :> 1301) @@ ("1000abc" :> 1000)
WholeNumbers == DOMAIN LeadingSeconds \ {"1000abc"}
(* the distance between Date.now() and the timestamp, in milliseconds *)
Distance(call) == Abs(call.dateNow - 1000 * LeadingSeconds[call.timestamp])
(* a call that has returned, on a header the sender made with the function's
   own key derivation *)
Judged(call) == call.pc = "verified" /\ call.by = "sender"
Intact(call) == call.secret = call.signerSecret /\ ~call.altered

(* C21: for a header signed with HMAC keyed as the function keys it,
   verifyWebhookSignature returns true when the secret is the signer's, the
   body is the signed body and the timestamp is within tolerance; it returns
   false when the body differs, when the timestamp is 10 minutes old, and when
   the secrets differ; it returns true only when signature and freshness hold. *)
C21_SignatureAndFreshness ==
  Judged(verifier)
    => /\ (Intact(verifier) /\ verifier.timestamp \in {"1000", "701", "1299"}) => verifier.result
       /\ verifier.altered => ~verifier.result
       /\ (verifier.timestamp = "400" /\ verifier.dateNow \div 1000 = 1000) => ~verifier.result
       /\ verifier.secret # verifier.signerSecret => ~verifier.result
       /\ verifier.result
            => /\ Intact(verifier)
               /\ verifier.timestamp \in DOMAIN LeadingSeconds
               /\ Distance(verifier) < 1000 * TOLERANCE

C21_Witness ==
  /\ Judged(verifier)
  /\ Intact(verifier)
  /\ verifier.secret = "whsec_QUJD"
  /\ verifier.timestamp = "1000"
  /\ verifier.result

(* C22: a header 'v1,<sig>' made by the test script's signWebhook for the
   current timestamp is accepted by verifyWebhookSignature called with the
   same secret and the same body. *)
C22_ScriptRoundTrip ==
  (/\ verifier.pc = "verified"
   /\ verifier.by = "signWebhook"
   /\ Intact(verifier)
   /\ verifier.timestamp = ToString(verifier.dateNow \div 1000))
    => verifier.result

(* C23 as stated: a correctly signed callback is accepted exactly when its
   timestamp is a whole number at most 300 seconds from the current time,
   before or after. *)
C23_WithinToleranceInclusive ==
  (Judged(verifier) /\ Intact(verifier))
    => (verifier.result
          <=> /\ verifier.timestamp \in WholeNumbers
              /\ Distance(verifier) <= 1000 * TOLERANCE)

(* C23 amended: a correctly signed callback is accepted exactly when its
   timestamp starts with an integer less than 300 seconds from the current
   time, before or after; at 300 seconds and beyond, and with no leading
   integer, it is rejected. *)
C23_WithinToleranceExclusive ==
  (Judged(verifier) /\ Intact(verifier))
    => (verifier.result
          <=> /\ verifier.timestamp \in DOMAIN LeadingSeconds
              /\ Distance(verifier) < 1000 * TOLERANCE)

C23_Witness ==
  /\ Judged(verifier)
  /\ Intact(verifier)
  /\ verifier.timestamp = "700"
  /\ verifier.dateNow = 1000 * (LeadingSeconds["700"] + TOLERANCE)
  /\ ~verifier.result

(* --------------- properties of the endpoints on a job ------------------ *)
JobEndpoints == {"startJob", "getJobStatus", "getDownloadUrl"}
NamesJob(rec) == rec.pc # "idle" /\ rec.kind \in JobEndpoints /\ "jobId" \in DOMAIN rec
(* the job fields a response carries in its body *)
JobFields(rec) == IF "data" \in DOMAIN rec THEN rec.data ELSE Null

(* C24: startJob, getJobStatus and getDownloadUrl, called for an existing job by
   a user who is not its owner, answer 403 in the step that read the job, with
   no job field in the body, and change no job, prediction or stored video. *)
C24_OnlyOwner ==
  [][\A r \in Reqs :
       (/\ Free(r) /\ Moved(r) /\ NamesJob(req'[r])
        /\ req'[r].jobId \in DOMAIN jobs
        /\ jobs[req'[r].jobId].userId # req'[r].userId)
         => /\ req'[r].pc = "done"
            /\ req'[r].resp = 403
            /\ req'[r].outcome = "unauthorized"
            /\ JobFields(req'[r]) = Null
            /\ jobs' = jobs
            /\ predictions' = predictions
            /\ saves' = saves]_vars

C24_Witness ==
  \E r \in Reqs :
    /\ req[r] = Answer("getDownloadUrl", 403, "unauthorized", "u2", "j1", Null)
    /\ jobs["j1"].status = "completed"
    /\ jobs["j1"].outputVideoPath # Null

(* C27: createJob by an authenticated caller with a danceStyle that is missing,
   not a string or not one of the six styles answers 400 in its first step and
   writes no job and no user; with one of the six styles it goes on, and the
   invocation answered 200 has inserted exactly one job: pending, replicateJobId
   and outputVideoPath null, inputImagePath uploads/<userId>/<jobId>/original.jpg. *)
SixStyles == {"hip-hop", "ballet", "disco", "breakdance", "salsa", "robot"}
C27_StyleValidated ==
  [][\A r \in Reqs :
       /\ \A q \in OpsCreateRequests :
            (/\ Free(r) /\ Moved(r) /\ req'[r].pc # "idle" /\ req'[r].kind = "createJob"
             /\ q.auth.uid # Null
             /\ CreateJobBegin(r, q.method, q.auth, q.danceStyle))
              => IF q.danceStyle.t = "string" /\ q.danceStyle.s \in SixStyles
                   THEN /\ req'[r].pc \in {"cj_user_set", "cj_job_set"}
                        /\ req'[r].danceStyle = q.danceStyle.s
                   ELSE /\ req'[r].pc = "done"
                        /\ req'[r].resp = 400
                        /\ jobs' = jobs
                        /\ users' = users
       /\ (req[r].pc = "cj_job_set" /\ Moved(r))
            => IF req'[r].resp = 200
                 THEN LET new == (DOMAIN jobs') \ (DOMAIN jobs) IN
                      /\ Cardinality(new) = 1
                      /\ \A x \in DOMAIN jobs : jobs'[x] = jobs[x]
                      /\ \A j \in new :
                           /\ jobs'[j].userId = req[r].userId
                           /\ jobs'[j].status = "pending"
                           /\ jobs'[j].danceStyle = req[r].danceStyle
                           /\ jobs'[j].danceStyle \in SixStyles
                           /\ jobs'[j].replicateJobId = Null
                           /\ jobs'[j].outputVideoPath = Null
                           /\ jobs'[j].inputImagePath
                                = "uploads/" \o req[r].userId \o "/" \o j \o "/original.jpg"
                 ELSE jobs' = jobs]_vars

C27_Witness ==
  \E r \in Reqs :
    /\ req[r] = Done("createJob", 400, "invalid_danceStyle")
    /\ DOMAIN jobs = {"j1"}
    /\ "u2" \notin DOMAIN users

(* C28: createJob, startJob, getJobStatus and getDownloadUrl answer 401 when
   the Authorization header is missing and when the token is invalid or
   expired. *)
C28_BadCredentialIs401 ==
  \A r \in Reqs :
    (/\ req[r].pc = "done"
     /\ req[r].kind \in JobEndpoints \cup {"createJob"}
     /\ req[r].outcome \in {"no_auth_header", "verifyIdToken_threw"})
      => req[r].resp = 401

(* C29: a job that is processing stops being processing only in the update of
   a completion callback that found it; no request of another kind and no
   advance of the clock moves it. *)
C29_ProcessingLeavesByCallback ==
  [][\A j \in DOMAIN jobs :
       (jobs[j].status = "processing" /\ jobs'[j].status # "processing")
         => \E r \in Reqs :
              /\ req[r].pc = "wh_update"
              /\ req[r].job = Some(j)
              /\ Moved(r)]_vars

C29_Witness ==
  \E r \in Reqs :
    /\ req[r].pc = "done"
    /\ req[r].kind = "getJobStatus"
    /\ req[r].resp = 200
    /\ Val(req[r].data).status = "processing"
    /\ jobs[req[r].jobId].status = "processing"
    /\ now >= jobs[req[r].jobId].createdAt + DayLen
    /\ received = MaxRequests

(* ---------------- properties of the user record ------------------------ *)
(* C25: getOrCreateUser's write creates the record only when it is absent and
   leaves an existing record as it is, whatever ran since it read; no step of
   createJob turns a subscriptionStatus that is active into none. *)
C25_UpsertKeepsRecord ==
  [][\A r \in Reqs :
       (req[r].pc \in {"cj_user_set", "cj_job_set"} /\ Moved(r))
         => \A u \in DOMAIN users : users'[u] = users[u]]_vars

(* ---------------- progress of a delivered callback --------------------- *)
(* a verified succeeded callback with a usable output has been received and has
   found job j, which startJob had moved to processing *)
Delivered(j) ==
  \E r \in Reqs :
    /\ IsWebhook(req[r])
    /\ req[r].pc = "wh_save"
    /\ req[r].verify = "valid"
    /\ req[r].job = Some(j)
    /\ req[r].seen = Some("processing")
CompletedWithVideo(j) ==
  /\ j \in DOMAIN jobs
  /\ jobs[j].status = "completed"
  /\ jobs[j].outputVideoPath = Some("outputs/" \o jobs[j].userId \o "/" \o j \o "/dance.mp4")
  /\ jobs[j].completedAt # Null

(* C26: once a validly signed succeeded callback with a usable output has been
   delivered for a job that createJob made and startJob moved to processing,
   and storage and the stores work, the job eventually is completed with
   outputVideoPath outputs/<userId>/<jobId>/dance.mp4 and completedAt set. *)
C26_DeliveredCallbackCompletes ==
  \A j \in JobIds : Delivered(j) ~> CompletedWithVideo(j)

C26_Witness ==
  \E r \in Reqs :
    /\ IsWebhook(req[r])
    /\ req[r].pc = "done"
    /\ req[r].outcome = "completed"
    /\ req[r].verify = "valid"
    /\ req[r].seen = Some("processing")
    /\ CompletedWithVideo(Val(req[r].job))
    /\ jobs[Val(req[r].job)].danceStyle = "disco"
    /\ jobs[Val(req[r].job)].replicateJobId = req[r].id

(* ---------------- storage failures in the callback --------------------- *)
StorageFailure(rec) ==
  rec.pc = "wh_update" /\ rec.upd = "failed" /\ rec.msg = STORAGE_UNAVAILABLE_MSG

(* C30: a verified succeeded callback with a usable output, in a deployment
   without a bucket, goes to the failing update without a save; when the save
   of the video fails, the invocation goes to the failing update, and a failing
   download is the only other way to leave without a saved video. The failing
   update sets status failed, the storage-unavailable message and completedAt,
   leaves outputVideoPath and every other job as they were, writes no video
   and ends the invocation with 200. *)
C30_StorageFailureMarksFailed ==
  [][\A r \in Reqs :
       /\ (Free(r) /\ Moved(r) /\ IsWebhook(req'[r]) /\ req'[r].verify = "valid" /\ ~env.bucket)
            => /\ req'[r].pc # "wh_save"
               /\ saves' = saves
       /\ (req[r].pc = "wh_save" /\ Moved(r) /\ req[r].verify = "valid")
            => \/ saves'[Val(req[r].job)] = saves[Val(req[r].job)] + 1
                    /\ req'[r].pc = "wh_update" /\ req'[r].upd = "completed"
               \/ saves' = saves /\ StorageFailure(req'[r])
               \/ saves' = saves /\ req'[r].pc = "done" /\ req'[r].outcome = "fetch_failed"
       /\ (StorageFailure(req[r]) /\ Moved(r) /\ req[r].verify = "valid")
            => /\ saves' = saves
               /\ req'[r].pc = "done"
               /\ jobs' # jobs
                    => LET j == Val(req[r].job) IN
                       /\ req'[r].resp = 200
                       /\ jobs'[j].status = "failed"
                       /\ jobs'[j].errorMessage = Some(STORAGE_UNAVAILABLE_MSG)
                       /\ jobs'[j].completedAt = Some(now)
                       /\ jobs'[j].outputVideoPath = jobs[j].outputVideoPath
                       /\ \A x \in DOMAIN jobs \ {j} : jobs'[x] = jobs[x]]_vars

C30_Witness ==
  \E r \in Reqs :
    /\ IsWebhook(req[r])
    /\ req[r].pc = "done"
    /\ req[r].resp = 200
    /\ req[r].outcome = "failed"
    /\ req[r].verify = "valid"
    /\ req[r].seen = Some("processing")
    /\ env.bucket
    /\ jobs[Val(req[r].job)].status = "failed"
    /\ jobs[Val(req[r].job)].errorMessage = Some(STORAGE_UNAVAILABLE_MSG)
    /\ jobs[Val(req[r].job)].completedAt # Null
    /\ jobs[Val(req[r].job)].outputVideoPath = Null
    /\ saves[Val(req[r].job)] = 0
(* --------------------------- result locator ---------------------------- *)
(* the locator as described: the output when it is a string, the first of
   url, video, output that has a value for an object, the first element for
   an array, and the first element of the value chosen when that is an array *)
FirstElement(v) == IF Len(v.a) > 0 THEN v.a[1] ELSE JSUndef
DescribedLocator(output) ==
  LET chosen ==
        CASE output.t = "string" -> output
          [] output.t = "object" ->
               IF Truthy(output.url) THEN output.url
               ELSE IF Truthy(output.video) THEN output.video
               ELSE output.output
          [] output.t = "array" -> FirstElement(output)
          [] OTHER -> JSUndef
  IN IF chosen.t = "array" THEN FirstElement(chosen) ELSE chosen

(* C31: the extraction throws exactly when the described choice gives no value;
   when it succeeds, the locator is the described choice and is a string. *)
C31_LocatorAsDescribed ==
  verifier.pc \in {"extracted", "threw"}
    => LET described == DescribedLocator(verifier.output) IN
       /\ (verifier.pc = "threw") <=> ~Truthy(described)
       /\ verifier.pc = "extracted"
            => /\ verifier.videoUrl = described
               /\ verifier.videoUrl.t = "string"

(* ------------------------- callback routing ---------------------------- *)
(* C32: a callback with prediction id P changes at most one job, a job whose
   replicateJobId is P, and leaves every other job as it was. *)
C32_RoutedByPredictionId ==
  [][\A r \in Reqs :
       (req[r].pc = "wh_update" /\ Moved(r) /\ jobs' # jobs)
         => \E j \in DOMAIN jobs :
              /\ jobs[j].replicateJobId = req[r].id
              /\ \A k \in DOMAIN jobs \ {j} : jobs'[k] = jobs[k]]_vars

(* ---------------------------- ungated mode ----------------------------- *)
(* C33: with no billing key configured, validateSubscription reports access
   with status active, and the startJob that obtained this result is not
   refused by the free-tier limit. *)
C33_UngatedFullAccess ==
  [][\A r \in Reqs :
       (req[r].pc \in {"sj_rate_user", "sj_rate_jobs"} /\ Moved(r) /\ ~billing.key)
         => /\ ValidateSubscription(req[r].userId) = SubscriptionResult(TRUE, "active")
            /\ ~Denied(req'[r])]_vars

(* ----------------------- quota under concurrency ----------------------- *)
(* C34: a user whose record is not active never has more than
   FREE_USER_DAILY_LIMIT jobs that are processing or completed and were
   created in the trailing day. *)
C34_QuotaNeverExceeded ==
  \A u \in DOMAIN users :
    users[u].subscriptionStatus # "active" => QuotaCount(u) <= FREE_USER_DAILY_LIMIT

(* ------------------ callback before the id is stored ------------------- *)
(* C35: a verified callback that names a prediction startJob has created is
   never answered as one that no job was found for. *)
C35_CallbackNeverDropped ==
  \A r \in Reqs :
    (IsWebhookRecord(req[r]) /\ req[r].pc = "done" /\ req[r].verify = "valid"
       /\ \E n \in 1..Len(predictions) : req[r].id = Some(PredId(n)))
      => req[r].outcome # "no_job"

(* ---------------------- one prediction per job ------------------------- *)
(* C36: with mock mode off, no job ever has more than one prediction at the
   provider, and the startJob step that follows createPrediction leaves the
   prediction's id in the job's replicateJobId. *)
C36_OnePredictionPerJob ==
  [][~env.mock
       => /\ \A j \in JobIds :
               Cardinality({n \in 1..Len(predictions') : predictions'[n] = j}) <= 1
          /\ \A r \in Reqs :
               (req[r].pc = "sj_update" /\ Moved(r))
                 => jobs'[req[r].jobId].replicateJobId = Some(req[r].prediction)]_vars

(* --------------------------- completedAt ------------------------------- *)
(* C37: a job has a completedAt exactly when its status is completed or
   failed. *)
C37_CompletedAtIffTerminal ==
  \A j \in DOMAIN jobs : (jobs[j].completedAt # Null) <=> (jobs[j].status \in Terminal)

(* ------------------------- immutable fields ---------------------------- *)
CreationFields(job) == <<job.userId, job.danceStyle, job.inputImagePath, job.createdAt>>
WrittenLater == {"status", "replicateJobId", "outputVideoPath", "completedAt", "errorMessage"}

(* C38: a job that exists stays, and every step leaves its userId,
   danceStyle, inputImagePath and createdAt as createJob wrote them; the
   fields a step changes are among status, replicateJobId, outputVideoPath,
   completedAt and errorMessage. *)
C38_CreationFieldsKept ==
  [][\A j \in DOMAIN jobs :
       /\ j \in DOMAIN jobs'
       /\ DOMAIN jobs'[j] = DOMAIN jobs[j]
       /\ CreationFields(jobs'[j]) = CreationFields(jobs[j])
       /\ \A k \in DOMAIN jobs[j] : jobs'[j][k] # jobs[j][k] => k \in WrittenLater]_vars

C38_Witness ==
  \E j \in DOMAIN jobs :
    /\ jobs[j].status = "completed"
    /\ jobs[j].replicateJobId = Some(PredId(1))
    /\ jobs[j].outputVideoPath # Null
    /\ saves[j] = 1
    /\ CreationFields(jobs[j]) = CreationFields(NewJob("u1", j, "disco", 0))
    /\ now = 1

(* ---------------------- callbacks that change nothing ------------------ *)
(* payloads whose status is not failed or canceled and not succeeded with an
   output: a status still in progress, or succeeded with no output or '' *)
IgnoredPayloads(id) ==
  {b \in CallbackPayloads(id) :
      ~(b.status = "succeeded" /\ Truthy(b.output)) /\ b.status \notin {"failed", "canceled"}}

(* C39: a verified callback of such a status that found a job is answered 200
   in the step that received it, and no job is changed. *)
C39_OtherStatusIgnored ==
  [][\A r \in Reqs :
       (Free(r) /\ Moved(r) /\ IsWebhookRecord(req'[r]) /\ req'[r].verify = "valid"
          /\ req'[r].job # Null)
         => \A b \in IgnoredPayloads(JSStr(Val(req'[r].id))) :
              WebhookPost(r, AllHeaders, TRUE, b)
                => /\ req'[r].pc = "done"
                   /\ req'[r].resp = 200
                   /\ jobs' = jobs]_vars

C39_Witness ==
  \E r \in Reqs :
    /\ IsWebhookRecord(req[r])
    /\ req[r].pc = "done"
    /\ req[r].verify = "valid"
    /\ req[r].outcome = "ignored_status"
    /\ req[r].resp = 200
    /\ req[r].seen = Some("processing")
    /\ jobs[Val(req[r].job)].status = "processing"
    /\ jobs[Val(req[r].job)].completedAt = Null

(* ------------------------------ polling -------------------------------- *)
(* C40: pollJobStatus sends at most maxAttempts getJobStatus requests; while
   it runs neither showResult nor showError has been called, and when it has
   stopped exactly one of them has been called, once. *)
C40_PollBounded ==
  /\ script.requests <= maxAttempts
  /\ script.results + script.errors = IF script.pc = "stopped" THEN 1 ELSE 0

====
